---- MODULE Spec2Model ----
(***************************************************************************)
(* Deformer-stack reconcile of the facial autorig:                         *)
(*   build.create_all_deformers  (src/build.py 150-196)                    *)
(*   utils.copy_deformers        (src/utils.py 112-156)                    *)
(*   utils.create_deformer       (src/utils.py 159-215)                    *)
(*   utils.bind_skincluster      (src/utils.py 250-283)                    *)
(*   utils.create_shrinkwrap     (src/utils.py 286-340)                    *)
(*   utils.get_children          (src/utils.py  92-109)                    *)
(*                                                                         *)
(* A node name is the sequence of its "_"-separated tokens, so that        *)
(* "M_body_cluster" is <<"M","body","cluster">>, name.split("_")[-1] is    *)
(* the last token and str.format replaces a placeholder token.             *)
(*                                                                         *)
(* The host scene (maya.cmds) is state: the deformer nodes that exist, and *)
(* for every mesh its deformer chain in listHistory order (the deformer    *)
(* nearest to the shape first).  A deformer added to a mesh is evaluated   *)
(* after the ones the mesh has, so it enters the chain at its head.        *)
(***************************************************************************)
EXTENDS Integers, Sequences, FiniteSets, TLC

VARIABLES
    deformers_data,  \* the argument of create_all_deformers (DEFORMERS_STACK)
    dnodes,          \* host: deformer name -> its node (type, joints, envelope, ...)
    chain,           \* host: mesh -> its deformers, nearest to the shape first
    pc,              \* position of create_all_deformers
    ti,              \* number of deformers_data items already taken by the outer loop
    objects,         \* create_all_deformers: objects still to visit (line 165)
    meshes,          \* create_all_deformers: meshes still to visit (line 167)
    mesh,            \* create_all_deformers: the mesh being reconciled
    missing,         \* names still to create for mesh (line 172)
    raw_missing,     \* their keys in the stack (line 172)
    deformer_type,   \* the local of create_all_deformers (lines 176, 179)
    error,           \* the exception that ended the call, "" when none
    runs,            \* calls of create_all_deformers started so far
    prev,            \* how the previous call ended: "none" or "done"
    chain0,          \* chain when the current call started
    dnodes0,         \* dnodes when the current call started
    expanded,        \* log: <<item, objects>> of every item taken (lines 156-163)
    report,          \* log: what copy_deformers found and returned, per mesh
    created,         \* log: the deformers the call created, in order
    removed,         \* log: the deformers other tooling removed between calls
    renamed,         \* log: the renames of rename_scene, in order
    args,            \* the arguments of a direct call of a function
    host,            \* host: the scene the rig-assembly functions of build work on
    result           \* what the direct call returned

vars == <<deformers_data, dnodes, chain, pc, ti, objects, meshes, mesh, missing,
          raw_missing, deformer_type, error, runs, prev, chain0, dnodes0,
          expanded, report, created, removed, renamed, args, host, result>>

(***************************************************************************)
(* Bounds of the model.                                                    *)
(***************************************************************************)
MaxSpecs == 3      \* longest deformer stack of a configuration
MaxTargets == 2    \* most items of deformers_data
MaxRuns == 2       \* calls of create_all_deformers in one behaviour
MaxTemplates == 2  \* longest deformer_stack of a direct call of copy_deformers
MaxRemoved == 1    \* deformers other tooling removes in one behaviour

(***************************************************************************)
(* Helpers on sequences.                                                   *)
(***************************************************************************)
Range(s) == {s[i] : i \in 1..Len(s)}

Reverse(s) == [i \in 1..Len(s) |-> s[Len(s) + 1 - i]]

RECURSIVE Flatten(_)
Flatten(ss) == IF ss = <<>> THEN <<>> ELSE Head(ss) \o Flatten(Tail(ss))

IsSuffixOf(s, t) ==
    /\ Len(s) <= Len(t)
    /\ \A i \in 1..Len(s) : s[i] = t[Len(t) - Len(s) + i]

DistinctSeqs(S, n) ==
    {s \in UNION {[1..m -> S] : m \in 1..n} :
        \A i, j \in 1..Len(s) : i # j => s[i] # s[j]}

(***************************************************************************)
(* Names.                                                                  *)
(***************************************************************************)
\* name.split("_")[-1]
SplitLast(name) == name[Len(name)]

\* the split that takes the last token, [-1], for the side
SplitFirst_Last(name) == name[Len(name)]

\* name.split("_")[0]
SplitFirst(name) == name[1]

\* name.startswith(token)
StartsWith(name, token) == Len(name) > 0 /\ name[1] = token

\* name.format(side): every "{}" replaced by side
FormatSide(name, side) ==
    [i \in 1..Len(name) |-> IF name[i] = "{}" THEN side ELSE name[i]]

\* name.format(side=side_prefix): every "{side}" replaced
FormatSideKw(name, side) ==
    [i \in 1..Len(name) |-> IF name[i] = "{side}" THEN side ELSE name[i]]

\* name.format(name=target): every "{name}" replaced by the target's name
FormatName(name, target) ==
    Flatten([i \in 1..Len(name) |->
                IF name[i] = "{name}" THEN target ELSE <<name[i]>>])

(***************************************************************************)
(* Configuration tables (lfdn_td.facial.config).                           *)
(***************************************************************************)
\* DEFORMER_SUFFIX_ASSOCIATIONS: ordered list of {suffix, type}
DEFORMER_SUFFIX_ASSOCIATIONS ==
    << [suffix |-> "cluster",     type |-> "cluster"],
       [suffix |-> "ffd",         type |-> "ffd"],
       [suffix |-> "lattice",     type |-> "ffd"],
       [suffix |-> "skinCluster", type |-> "skinCluster"],
       [suffix |-> "wrap",        type |-> "wrap"],
       [suffix |-> "shrinkWrap",  type |-> "shrinkWrap"],
       [suffix |-> "proximityWrap", type |-> "proximityWrap"] >>

\* A value of a stack: None, or a dict with some of the keys
\* "joints", "use_hierarchy", "envelope", "source".
NoneValue ==
    [none |-> TRUE, keys |-> {}, joints |-> {}, use_hierarchy |-> FALSE,
     envelope |-> 1, source |-> <<>>]

SkinValue(joints, envelope) ==
    [none |-> FALSE, keys |-> {"joints", "use_hierarchy", "envelope"},
     joints |-> joints, use_hierarchy |-> FALSE, envelope |-> envelope,
     source |-> <<>>]

SourceValue(source) ==
    [none |-> FALSE, keys |-> {"source"}, joints |-> {}, use_hierarchy |-> FALSE,
     envelope |-> 1, source |-> source]

\* The entries a stack of DEFORMERS_STACK is drawn from: key -> value.
SpecPool ==
    { [key |-> <<"M", "body", "cluster">>,     value |-> NoneValue],
      [key |-> <<"{name}", "skinCluster">>,    value |-> SkinValue({"j1", "j2"}, 0)],
      [key |-> <<"{name}", "shrinkWrap">>,     value |-> SourceValue(<<"M", "src", "mesh">>)],
      [key |-> <<"M", "body", "foo">>,         value |-> NoneValue],
      [key |-> <<"{name}", "skincluster">>,    value |-> SkinValue({"j1"}, 0)] }

\* The keys of deformers_data the items are drawn from.
TargetPool ==
    { <<"M", "body", "compil", "mesh">>,
      <<"{}", "eye", "grp">>,
      <<"M", "ghost", "mesh">> }

\* deformers_data as the ordered list of its items (node, deformers); the
\* stacks of one configuration list the same entries.
Configs ==
    { [i \in 1..Len(ts) |-> [node |-> ts[i], deformers |-> st]] :
        ts \in DistinctSeqs(TargetPool, MaxTargets),
        st \in DistinctSeqs(SpecPool, MaxSpecs) }

(***************************************************************************)
(* The host scene: the DAG nodes that are not deformers.                   *)
(***************************************************************************)
SceneMeshes ==
    { <<"M", "body", "compil", "mesh">>, <<"L", "eye", "mesh">>,
      <<"R", "eye", "mesh">>, <<"M", "src", "mesh">>, <<"M", "other", "mesh">> }

\* the shape node of a mesh: "<mesh>Shape"
ShapeOf(m) == [m EXCEPT ![Len(m)] = "meshShape"]

SceneGroups == { <<"L", "eye", "grp">>, <<"R", "eye", "grp">> }

\* cmds.listRelatives(node, children=True): the meshes of a group, the
\* shape of a mesh
ListRelativesChildren(node) ==
    IF node \in SceneGroups THEN << [node EXCEPT ![Len(node)] = "mesh"] >>
    ELSE IF node \in SceneMeshes THEN << ShapeOf(node) >> ELSE <<>>

SceneNodes == SceneMeshes \cup {ShapeOf(m) : m \in SceneMeshes} \cup SceneGroups

\* "Shape" in child
ContainsShape(name) == \E i \in 1..Len(name) : name[i] \in {"Shape", "meshShape"}

\* cmds.objExists(name)
ObjExists(name, dn) == name \in SceneNodes \/ name \in DOMAIN dn

\* utils.get_children(node), for a node that exists
get_children(node) ==
    SelectSeq(ListRelativesChildren(node), LAMBDA child : ~ContainsShape(child))

(***************************************************************************)
(* Host commands on the deformer graph.                                    *)
(***************************************************************************)
\* a deformer that takes the place of the chain of the geometry
Attach_Replacing(ch, name, geo) ==
    IF geo \notin DOMAIN ch THEN ch ELSE [ch EXCEPT ![geo] = <<name>>]

\* A deformer joins the chain of a geometry at the shape end; a geometry
\* that is already deformed by it is left as it is.
Attach(ch, name, geo) ==
    IF geo \notin DOMAIN ch \/ name \in Range(ch[geo]) THEN ch
    ELSE [ch EXCEPT ![geo] = <<name>> \o @]

RECURSIVE AttachAll(_, _, _)
AttachAll(ch, names, geo) ==
    IF names = <<>> THEN ch
    ELSE AttachAll(Attach(ch, Head(names), geo), Tail(names), geo)

RECURSIVE AttachTo(_, _, _)
AttachTo(ch, name, geos) ==
    IF geos = <<>> THEN ch
    ELSE AttachTo(Attach(ch, name, Head(geos)), name, Tail(geos))

\* A deformer node as the host creates it: the envelope of a new deformer
\* is 1, and "configured" tells that the settings its creator makes after
\* the creation command have all been made.
Node(type, joints, envelope, source, configured) ==
    [type |-> type, joints |-> joints, envelope |-> envelope,
     source |-> source, configured |-> configured]

AddNode(dn, name, node) ==
    [n \in DOMAIN dn \cup {name} |-> IF n = name THEN node ELSE dn[n]]

(***************************************************************************)
(* utils.copy_deformers(target, deformer_stack=keys)                       *)
(***************************************************************************)
\* lines 136-147: the names one key of the stack stands for
ResolveNames(deformer, target) ==
    IF StartsWith(deformer, "{}")
    THEN << FormatSide(deformer, "L"), FormatSide(deformer, "R") >>
    ELSE IF StartsWith(deformer, "{name}")
    THEN << FormatName(deformer, target) >>
    ELSE IF StartsWith(deformer, "{side}")
    THEN << FormatSideKw(deformer, SplitFirst(target)) >>
    ELSE << deformer >>

\* the walk without reversed() at line 135
WalkStack_Forward(keys, target) ==
    Flatten([i \in 1..Len(keys) |->
        LET names == ResolveNames(keys[i], target)
        IN [j \in 1..Len(names) |-> [name |-> names[j], raw |-> keys[i]]]])

\* line 135 and the inner loop of line 149: the (name, key) pairs in the
\* order the function visits them
WalkStack(keys, target) ==
    Flatten([i \in 1..Len(keys) |->
        LET deformer == Reverse(keys)[i]
            names == ResolveNames(deformer, target)
        IN [j \in 1..Len(names) |-> [name |-> names[j], raw |-> deformer]]])

\* copy_deformers that keeps a name only when it is on the target already
copy_deformers_AttachedTest(target, keys, dn, ch) ==
    LET walk == WalkStack(keys, target)
        found == SelectSeq(walk, LAMBDA e : e.name \in Range(ch[target]))
        lost == SelectSeq(walk, LAMBDA e : e.name \notin Range(ch[target]))
    IN [missing |-> [i \in 1..Len(lost) |-> lost[i].name],
        raw_missing |-> [i \in 1..Len(lost) |-> lost[i].raw],
        found |-> [i \in 1..Len(found) |-> found[i].name],
        chain |-> ch]

\* copy_deformers without the objExists test of line 150: every name of the
\* stack is returned as missing
copy_deformers_NoExistsTest(target, keys, dn, ch) ==
    LET walk == WalkStack(keys, target)
    IN [missing |-> [i \in 1..Len(walk) |-> walk[i].name],
        raw_missing |-> [i \in 1..Len(walk) |-> walk[i].raw],
        found |-> <<>>,
        chain |-> ch]

\* copy_deformers with missing.append(defo) outside the else of line 152:
\* a name that exists is added to the target and returned as missing too
copy_deformers_AppendAlways(target, keys, dn, ch) ==
    LET walk == WalkStack(keys, target)
        found == SelectSeq(walk, LAMBDA e : ObjExists(e.name, dn))
    IN [missing |-> [i \in 1..Len(walk) |-> walk[i].name],
        raw_missing |-> [i \in 1..Len(walk) |-> walk[i].raw],
        found |-> [i \in 1..Len(found) |-> found[i].name],
        chain |-> AttachAll(ch, [i \in 1..Len(found) |-> found[i].name], target)]

\* copy_deformers that takes every name of the stack for present, as a
\* record of the names applied by an earlier call would tell
copy_deformers_AssumesPresent(target, keys, dn, ch) ==
    LET walk == WalkStack(keys, target)
    IN [missing |-> <<>>,
        raw_missing |-> <<>>,
        found |-> [i \in 1..Len(walk) |-> walk[i].name],
        chain |-> AttachAll(ch, [i \in 1..Len(walk) |-> walk[i].name], target)]

\* copy_deformers that takes a free name when the resolved one is held by a
\* deformer of another mesh, as the host does when it names a new node
copy_deformers_UniqueNames(target, keys, dn, ch) ==
    LET walk == WalkStack(keys, target)
        free(n) == IF ObjExists(n, dn) /\ n \notin Range(ch[target])
                   THEN n \o <<"1">> ELSE n
        found == SelectSeq(walk, LAMBDA e : ObjExists(free(e.name), dn))
        lost == SelectSeq(walk, LAMBDA e : ~ObjExists(free(e.name), dn))
    IN [missing |-> [i \in 1..Len(lost) |-> free(lost[i].name)],
        raw_missing |-> [i \in 1..Len(lost) |-> lost[i].raw],
        found |-> [i \in 1..Len(found) |-> free(found[i].name)],
        chain |-> AttachAll(ch, [i \in 1..Len(found) |-> free(found[i].name)], target)]

\* lines 149-156: a name that exists is added to the target, the others
\* are returned; the result is (missing, raw_missing) and the chains
copy_deformers(target, keys, dn, ch) ==
    LET walk == WalkStack(keys, target)
        found == SelectSeq(walk, LAMBDA e : ObjExists(e.name, dn))
        lost == SelectSeq(walk, LAMBDA e : ~ObjExists(e.name, dn))
    IN [missing |-> [i \in 1..Len(lost) |-> lost[i].name],
        raw_missing |-> [i \in 1..Len(lost) |-> lost[i].raw],
        found |-> [i \in 1..Len(found) |-> found[i].name],
        chain |-> AttachAll(ch, [i \in 1..Len(found) |-> found[i].name], target)]

(***************************************************************************)
(* Creation of one deformer.  Every operator returns the exception raised  *)
(* ("" when none), the scene it leaves and the log of what it created.     *)
(* fault names the host command that the host rejects: "none", "create"    *)
(* (the command that creates or edits the deformer) or "config" (a setAttr *)
(* or connectAttr that follows it).                                        *)
(***************************************************************************)
Faults == {"none", "create", "config"}

Result(err, dn, ch, made) == [error |-> err, dnodes |-> dn, chain |-> ch, made |-> made]

Made(name, type, geos, source) ==
    << [name |-> name, type |-> type, geos |-> geos, source |-> source] >>

\* the loop over the association map (build.py 174-177, utils.py 180-183):
\* the type of the first association of the suffix, else the value the
\* variable had before the loop
SuffixType(suffix, before) ==
    LET hits == {i \in 1..Len(DEFORMER_SUFFIX_ASSOCIATIONS) :
                    DEFORMER_SUFFIX_ASSOCIATIONS[i].suffix = suffix}
    IN IF hits = {} THEN before
       ELSE DEFORMER_SUFFIX_ASSOCIATIONS[CHOOSE i \in hits : \A j \in hits : i <= j].type

\* create_shrinkwrap as its docstring reads ("target: mesh where to create
\* the deformer"): the shrinkWrap deforms target and is driven by mesh
create_shrinkwrap_OnTarget(mesh_, target, name, dn, ch, fault) ==
    IF fault = "create" THEN Result("RuntimeError", dn, ch, <<>>)
    ELSE LET made == Made(name, "shrinkWrap", <<target>>, mesh_)
             ch1 == Attach(ch, name, target)
         IN IF fault = "config"
            THEN Result("RuntimeError",
                        AddNode(dn, name, Node("shrinkWrap", {}, 1, <<>>, FALSE)),
                        ch1, made)
            ELSE Result("", AddNode(dn, name, Node("shrinkWrap", {}, 1, mesh_, TRUE)),
                        ch1, made)

\* utils.create_shrinkwrap(mesh, target, name): the shrinkWrap deforms
\* mesh and takes the shape of target as its targetGeom
create_shrinkwrap(mesh_, target, name, dn, ch, fault) ==
    IF fault = "create" THEN Result("RuntimeError", dn, ch, <<>>)
    ELSE LET made == Made(name, "shrinkWrap", <<mesh_>>, target)
             ch1 == Attach(ch, name, mesh_)
         IN IF fault = "config"
            THEN Result("RuntimeError",
                        AddNode(dn, name, Node("shrinkWrap", {}, 1, <<>>, FALSE)),
                        ch1, made)
            ELSE Result("", AddNode(dn, name, Node("shrinkWrap", {}, 1, target, TRUE)),
                        ch1, made)

\* create_deformer that does not pass name= to the host command: the host
\* names the node itself
create_deformer_Unnamed(name, meshes_, given_type, dn, ch, fault) ==
    LET type == IF given_type = "" THEN SuffixType(SplitLast(name), "") ELSE given_type
        auto == <<type, "1">>
        geos == <<meshes_[Len(meshes_)]>>
    IN IF type = "" THEN Result("", dn, ch, <<>>)
       ELSE IF fault = "create" THEN Result("RuntimeError", dn, ch, <<>>)
       ELSE Result("", AddNode(dn, auto, Node(type, {}, 1, <<>>, TRUE)),
                   AttachTo(ch, auto, geos), Made(auto, type, geos, <<>>))

\* create_deformer that runs the loop over the suffix table whether or not
\* a deformer_type was given: the type of the suffix replaces the given one
create_deformer_SuffixFirst(name, meshes_, given_type, dn, ch, fault) ==
    LET type == SuffixType(SplitLast(name), given_type)
        geos == <<meshes_[Len(meshes_)]>>
    IN IF type = "" THEN Result("", dn, ch, <<>>)
       ELSE IF fault = "create" THEN Result("RuntimeError", dn, ch, <<>>)
       ELSE Result("", AddNode(dn, name, Node(type, {}, 1, <<>>, TRUE)),
                   AttachTo(ch, name, geos), Made(name, type, geos, <<>>))

\* utils.create_deformer(name, meshes, deformer_type); deformer_type "" is None
create_deformer(name, meshes_, given_type, dn, ch, fault) ==
    LET type == IF given_type = "" THEN SuffixType(SplitLast(name), "") ELSE given_type
        plain(geos, source) ==
            IF fault = "create" THEN Result("RuntimeError", dn, ch, <<>>)
            ELSE Result("", AddNode(dn, name, Node(type, {}, 1, source, TRUE)),
                        AttachTo(ch, name, geos), Made(name, type, geos, source))
    IN IF type = "" THEN Result("", dn, ch, <<>>)
       ELSE IF type \in {"cluster", "ffd", "blendShape"} THEN plain(meshes_, <<>>)
       ELSE IF type = "wire"
       THEN plain(<<meshes_[1]>>, IF Len(meshes_) > 1 THEN meshes_[2] ELSE <<>>)
       ELSE IF type = "wrap"
       THEN IF Len(meshes_) < 2 THEN Result("IndexError", dn, ch, <<>>)
            ELSE IF fault = "create" THEN Result("RuntimeError", dn, ch, <<>>)
            ELSE IF fault = "config"
            THEN Result("RuntimeError",
                        AddNode(dn, name, Node("wrap", {}, 1, meshes_[1], FALSE)),
                        Attach(ch, name, meshes_[2]),
                        Made(name, "wrap", <<meshes_[2]>>, meshes_[1]))
            ELSE Result("", AddNode(dn, name, Node("wrap", {}, 1, meshes_[1], TRUE)),
                        Attach(ch, name, meshes_[2]),
                        Made(name, "wrap", <<meshes_[2]>>, meshes_[1]))
       ELSE IF type = "proximityWrap"
       THEN IF Len(meshes_) < 2 THEN Result("IndexError", dn, ch, <<>>)
            ELSE plain(<<meshes_[2]>>, meshes_[1])
       ELSE IF type = "shrinkWrap"
       THEN IF Len(meshes_) < 2 THEN Result("IndexError", dn, ch, <<>>)
            ELSE create_shrinkwrap(meshes_[2], meshes_[1], name, dn, ch, fault)
       ELSE IF type = "bend" THEN plain(<<meshes_[1]>>, <<>>)
       ELSE plain(<<>>, <<>>)

\* utils.bind_skincluster(name, mesh, joints, envelope=envelope)
bind_skincluster(name, mesh_, joints, envelope, dn, ch, fault) ==
    IF fault = "create" THEN Result("RuntimeError", dn, ch, <<>>)
    ELSE IF ObjExists(name, dn) /\ (name \notin DOMAIN dn \/ dn[name].type # "skinCluster")
    THEN Result("RuntimeError", dn, ch, <<>>)
    ELSE LET exists == ObjExists(name, dn)
             dn1 == IF exists
                    THEN [dn EXCEPT ![name].joints = @ \cup joints]
                    ELSE AddNode(dn, name, Node("skinCluster", joints, 1, <<>>, FALSE))
             ch1 == IF exists THEN ch ELSE Attach(ch, name, mesh_)
             made == IF exists THEN <<>> ELSE Made(name, "skinCluster", <<mesh_>>, <<>>)
         IN IF fault = "config" THEN Result("RuntimeError", dn1, ch1, made)
            ELSE Result("", [dn1 EXCEPT ![name].envelope = envelope,
                                        ![name].configured = TRUE], ch1, made)

\* deformers[key]
ValueOf(deformers, key) ==
    (CHOOSE e \in Range(deformers) : e.key = key).value

\* build.py 173-196: the body of the loop over zip(raw_missing, missing);
\* before is the value deformer_type holds when the body starts, "unbound"
\* when nothing was assigned to it yet in this call
LoopType(deformer, before) == SuffixType(SplitLast(deformer), before)

LoopBody(key, deformer, deformers, mesh_, before, dn, ch, fault) ==
    LET type == LoopType(deformer, before)
        value == ValueOf(deformers, key)
    IN IF type = "unbound" THEN Result("UnboundLocalError", dn, ch, <<>>)
       ELSE IF type = "skinCluster"
       THEN IF value.none THEN Result("TypeError", dn, ch, <<>>)
            ELSE IF ~({"joints", "use_hierarchy", "envelope"} \subseteq value.keys)
            THEN Result("KeyError", dn, ch, <<>>)
            ELSE bind_skincluster(deformer, mesh_, value.joints, value.envelope,
                                  dn, ch, fault)
       ELSE IF value.none
       THEN create_deformer(deformer, <<mesh_>>, "", dn, ch, fault)
       ELSE IF "source" \notin value.keys THEN Result("KeyError", dn, ch, <<>>)
       ELSE create_deformer(deformer, <<value.source, mesh_>>, "", dn, ch, fault)

(***************************************************************************)
(* build.create_all_deformers                                              *)
(***************************************************************************)
\* the expansion with the loop over "LR" left after its first turn
ExpandNode_FirstSide(node) ==
    IF StartsWith(node, "{}") THEN << FormatSide(node, "L") >> ELSE << node >>

\* lines 157-163: the objects one key of deformers_data stands for
ExpandNode(node) ==
    IF StartsWith(node, "{}")
    THEN << FormatSide(node, "L"), FormatSide(node, "R") >>
    ELSE << node >>

\* line 166: utils.get_children(obj) or [obj]
MeshesOfObject(obj) ==
    IF get_children(obj) = <<>> THEN <<obj>> ELSE get_children(obj)

\* deformers.keys()
Keys(deformers) == [i \in 1..Len(deformers) |-> deformers[i].key]

\* the item the outer loop is in
Item == deformers_data[ti]

(***************************************************************************)
(* The scenes a call can start from.  A build that ran before with the     *)
(* first k entries of the stack left them on every mesh of the             *)
(* configuration, in the order of the stack; other tooling may have left   *)
(* one deformer on a mesh of its own, under a name the stack gives the     *)
(* first mesh of the configuration.                                        *)
(***************************************************************************)
\* the meshes of the configuration that are in the scene, in the order the
\* call reaches them
ConfigMeshSeq(data) ==
    Flatten([i \in 1..Len(data) |->
        LET objs == ExpandNode(data[i].node)
        IN Flatten([j \in 1..Len(objs) |->
              IF objs[j] \in SceneNodes THEN MeshesOfObject(objs[j]) ELSE <<>>])])

ConfigMeshes(data) == Range(ConfigMeshSeq(data))

PrefixNames(deformers, k, m) ==
    Flatten([i \in 1..k |-> ResolveNames(deformers[i].key, m)])

BuiltNode(name, value) ==
    LET type == SuffixType(SplitLast(name), "unknown")
    IN Node(type, value.joints, IF type = "skinCluster" THEN value.envelope ELSE 1,
            value.source, TRUE)

ForeignNode(name) == Node(SuffixType(SplitLast(name), "unknown"), {"j0"}, 1, <<>>, TRUE)

OtherMesh == <<"M", "other", "mesh">>

BuiltScene(data, k) ==
    LET deformers == data[1].deformers
        ms == ConfigMeshes(data)
        owner(n) == CHOOSE e \in {deformers[i] : i \in 1..k} :
                        \E m \in ms : n \in Range(ResolveNames(e.key, m))
        names == UNION {Range(PrefixNames(deformers, k, m)) : m \in ms}
    IN [dnodes |-> [n \in names |-> BuiltNode(n, owner(n).value)],
        chain |-> [m \in SceneMeshes |->
                      IF m \in ms THEN PrefixNames(deformers, k, m) ELSE <<>>]]

ForeignScene(name) ==
    [dnodes |-> [n \in {name} |-> ForeignNode(name)],
     chain |-> [m \in SceneMeshes |-> IF m = OtherMesh THEN <<name>> ELSE <<>>]]

StartScenes(data) ==
    {BuiltScene(data, k) : k \in 0..Len(data[1].deformers)}
    \cup {ForeignScene(n) :
            n \in (IF ConfigMeshSeq(data) = <<>> THEN {}
                   ELSE Range(PrefixNames(data[1].deformers, Len(data[1].deformers),
                                          Head(ConfigMeshSeq(data)))))}

\* the state before the first call, for a family of configurations
InitFrom(configs) ==
    /\ deformers_data \in configs
    /\ \E scene \in StartScenes(deformers_data) :
          /\ dnodes = scene.dnodes
          /\ chain = scene.chain
          /\ chain0 = scene.chain
          /\ dnodes0 = scene.dnodes
    /\ pc = "idle"
    /\ ti = 0
    /\ objects = <<>>
    /\ meshes = <<>>
    /\ mesh = <<>>
    /\ missing = <<>>
    /\ raw_missing = <<>>
    /\ deformer_type = "unbound"
    /\ error = ""
    /\ runs = 0
    /\ prev = "none"
    /\ expanded = <<>>
    /\ report = <<>>
    /\ created = <<>>
    /\ removed = {}
    /\ renamed = <<>>
    /\ args = <<>>
    /\ host = <<>>
    /\ result = <<>>

Init == InitFrom(Configs)

\* lines 156, 165, 167, 172: the four nested for loops; a loop whose
\* sequence is used up falls through to the loop around it, and the call
\* returns when deformers_data is used up
LoopHeaders(missing_, meshes_, objects_, ti_) ==
    IF missing_ # <<>> THEN "create"
    ELSE IF meshes_ # <<>> THEN "mesh"
    ELSE IF objects_ # <<>> THEN "object"
    ELSE IF ti_ < Len(deformers_data) THEN "item"
    ELSE "done"

\* a call of create_all_deformers(deformers_data) begins: the first one, or
\* the next one after a call that returned (an exception that leaves the
\* function ends the build script that made the call)
Start ==
    /\ pc \in {"idle", "done"}
    /\ runs < MaxRuns
    /\ runs' = runs + 1
    /\ prev' = IF pc = "idle" THEN "none" ELSE pc
    /\ pc' = LoopHeaders(<<>>, <<>>, <<>>, 0)
    /\ ti' = 0
    /\ objects' = <<>>
    /\ meshes' = <<>>
    /\ mesh' = <<>>
    /\ missing' = <<>>
    /\ raw_missing' = <<>>
    /\ deformer_type' = "unbound"
    /\ error' = ""
    /\ chain0' = chain
    /\ dnodes0' = dnodes
    /\ expanded' = <<>>
    /\ report' = <<>>
    /\ created' = <<>>
    /\ UNCHANGED <<deformers_data, dnodes, chain, removed, renamed, args, host, result>>

\* lines 156-163: the next item of deformers_data and its objects
NextItem ==
    /\ pc = "item"
    /\ ti' = ti + 1
    /\ objects' = ExpandNode(deformers_data[ti + 1].node)
    /\ expanded' = Append(expanded,
                          [node |-> deformers_data[ti + 1].node,
                           objects |-> ExpandNode(deformers_data[ti + 1].node)])
    /\ pc' = "object"
    /\ UNCHANGED <<deformers_data, dnodes, chain, meshes, mesh, missing, raw_missing,
                   deformer_type, error, runs, prev, chain0, dnodes0, report, created,
                   removed, renamed, args, host, result>>

\* lines 165-166: the next object and its meshes; listRelatives raises
\* ValueError for a node that does not exist
NextObject ==
    /\ pc = "object"
    /\ IF Head(objects) \notin SceneNodes
       THEN /\ pc' = "aborted"
            /\ error' = "ValueError"
            /\ UNCHANGED <<objects, meshes>>
       ELSE /\ objects' = Tail(objects)
            /\ meshes' = MeshesOfObject(Head(objects))
            /\ pc' = "mesh"
            /\ error' = error
    /\ UNCHANGED <<deformers_data, dnodes, chain, ti, mesh, missing, raw_missing,
                   deformer_type, runs, prev, chain0, dnodes0, expanded, report, created,
                   removed, renamed, args, host, result>>

\* lines 167-170: the next mesh, and copy_deformers on it
NextMesh ==
    /\ pc = "mesh"
    /\ LET r == copy_deformers(Head(meshes), Keys(Item.deformers), dnodes, chain)
       IN /\ mesh' = Head(meshes)
          /\ meshes' = Tail(meshes)
          /\ missing' = r.missing
          /\ raw_missing' = r.raw_missing
          /\ chain' = r.chain
          /\ report' = Append(report,
                [mesh |-> Head(meshes), node |-> Item.node,
                 keys |-> Keys(Item.deformers),
                 missing |-> r.missing, found |-> r.found,
                 scene |-> DOMAIN dnodes, before |-> chain[Head(meshes)]])
          /\ pc' = LoopHeaders(r.missing, Tail(meshes), objects, ti)
    /\ UNCHANGED <<deformers_data, dnodes, ti, objects, deformer_type, error, runs,
                   prev, chain0, dnodes0, expanded, created, removed, renamed, args, host, result>>

\* lines 172-196: one turn of the loop over the missing deformers of the
\* mesh; an exception ends the call
CreateMissing ==
    /\ pc = "create"
    /\ \E fault \in Faults :
          LET r == LoopBody(Head(raw_missing), Head(missing), Item.deformers, mesh,
                            deformer_type, dnodes, chain, fault)
          IN /\ dnodes' = r.dnodes
             /\ chain' = r.chain
             /\ deformer_type' = LoopType(Head(missing), deformer_type)
             /\ created' = created \o
                   [i \in 1..Len(r.made) |->
                       [name |-> r.made[i].name, type |-> r.made[i].type,
                        geos |-> r.made[i].geos, source |-> r.made[i].source,
                        mesh |-> mesh, key |-> Head(raw_missing)]]
             /\ error' = r.error
             /\ IF r.error = ""
                THEN /\ missing' = Tail(missing)
                     /\ raw_missing' = Tail(raw_missing)
                     /\ pc' = LoopHeaders(Tail(missing), meshes, objects, ti)
                ELSE /\ UNCHANGED <<missing, raw_missing>>
                     /\ pc' = "aborted"
    /\ UNCHANGED <<deformers_data, ti, objects, meshes, mesh, runs, prev, chain0,
                   dnodes0, expanded, report, removed, renamed, args, host, result>>

Next == Start \/ NextItem \/ NextObject \/ NextMesh \/ CreateMissing

Spec == Init /\ [][Next]_vars

(***************************************************************************)
(* The same call on configurations whose stacks hold the other forms of    *)
(* an entry: a name with the positional side placeholder "{}", and the     *)
(* three kinds that are driven by a source mesh.                           *)
(***************************************************************************)
KindPool ==
    { [key |-> <<"{}", "lid", "cluster">>,     value |-> NoneValue],
      [key |-> <<"{side}", "face", "ffd">>,    value |-> NoneValue],
      [key |-> <<"{name}", "wrap">>,           value |-> SourceValue(<<"M", "src", "mesh">>)],
      [key |-> <<"{name}", "proximityWrap">>,  value |-> SourceValue(<<"M", "src", "mesh">>)],
      [key |-> <<"{name}", "shrinkWrap">>,     value |-> SourceValue(<<"M", "src", "mesh">>)] }

KindTargets == { <<"M", "body", "compil", "mesh">>, <<"{}", "eye", "grp">> }

KindConfigs ==
    { [i \in 1..Len(ts) |-> [node |-> ts[i], deformers |-> st]] :
        ts \in DistinctSeqs(KindTargets, MaxTargets),
        st \in DistinctSeqs(KindPool, MaxSpecs) }

InitKinds == InitFrom(KindConfigs)

SpecKinds == InitKinds /\ [][Next]_vars

(***************************************************************************)
(* Calls of create_all_deformers with other tooling at work between them:  *)
(* after a call has returned, a deformer of the scene may be deleted       *)
(* before the next call.                                                   *)
(***************************************************************************)
DriftPool ==
    { [key |-> <<"{}", "lid", "cluster">>,   value |-> NoneValue],
      [key |-> <<"{name}", "skinCluster">>,  value |-> SkinValue({"j1", "j2"}, 0)],
      [key |-> <<"{name}", "shrinkWrap">>,   value |-> SourceValue(<<"M", "src", "mesh">>)] }

DriftConfigs ==
    { [i \in 1..Len(ts) |-> [node |-> ts[i], deformers |-> st]] :
        ts \in DistinctSeqs(KindTargets, MaxTargets),
        st \in DistinctSeqs(DriftPool, MaxSpecs) }

InitDrift == InitFrom(DriftConfigs)

\* cmds.delete(name) by another tool: the node leaves the scene and the
\* chain of every mesh it deformed
DeleteNode(dn, ch, name) ==
    [dnodes |-> [n \in DOMAIN dn \ {name} |-> dn[n]],
     chain |-> [m \in DOMAIN ch |-> SelectSeq(ch[m], LAMBDA n : n # name)]]

ExternalDelete ==
    /\ pc = "done"
    /\ runs < MaxRuns
    /\ Cardinality(removed) < MaxRemoved
    /\ \E name \in DOMAIN dnodes :
          /\ dnodes' = DeleteNode(dnodes, chain, name).dnodes
          /\ chain' = DeleteNode(dnodes, chain, name).chain
          /\ removed' = removed \cup {[name |-> name, run |-> runs]}
    /\ UNCHANGED <<deformers_data, pc, ti, objects, meshes, mesh, missing, raw_missing,
                   deformer_type, error, runs, prev, chain0, dnodes0, expanded, report,
                   created, renamed, args, host, result>>

NextDrift == Next \/ ExternalDelete

SpecDrift == InitDrift /\ [][NextDrift]_vars

(***************************************************************************)
(* utils.create_deformer called on its own, as build.add_teeth_bend does   *)
(* (build.py 981-984): any name, one or two meshes, a deformer_type or     *)
(* none ("").                                                              *)
(***************************************************************************)
CreateNames ==
    { <<"M", "teeth", s>> : s \in {"cluster", "lattice", "wrap", "shrinkWrap",
                                    "bend", "foo"} }

CreateTypes == {"", "cluster", "ffd", "wire", "wrap", "proximityWrap",
                "shrinkWrap", "bend", "sine"}

CreateMeshes ==
    { << <<"M", "body", "compil", "mesh">> >>,
      << <<"M", "src", "mesh">>, <<"M", "body", "compil", "mesh">> >> }

InitCreate ==
    /\ host = <<>>
    /\ result = <<>>
    /\ args \in [name : CreateNames, meshes : CreateMeshes,
                 deformer_type : CreateTypes, fault : Faults]
    /\ deformers_data = <<>>
    /\ dnodes = << >>
    /\ chain = [m \in SceneMeshes |-> <<>>]
    /\ dnodes0 = << >>
    /\ chain0 = [m \in SceneMeshes |-> <<>>]
    /\ pc = "call"
    /\ ti = 0
    /\ objects = <<>>
    /\ meshes = <<>>
    /\ mesh = <<>>
    /\ missing = <<>>
    /\ raw_missing = <<>>
    /\ deformer_type = "unbound"
    /\ error = ""
    /\ runs = 0
    /\ prev = "none"
    /\ expanded = <<>>
    /\ report = <<>>
    /\ created = <<>>
    /\ removed = {}
    /\ renamed = <<>>

\* utils.py 159-215: the call and its return or exception
CallCreateDeformer ==
    /\ pc = "call"
    /\ LET r == create_deformer(args.name, args.meshes, args.deformer_type,
                                dnodes, chain, args.fault)
       IN /\ dnodes' = r.dnodes
          /\ chain' = r.chain
          /\ error' = r.error
          /\ created' = [i \in 1..Len(r.made) |->
                            [name |-> r.made[i].name, type |-> r.made[i].type,
                             geos |-> r.made[i].geos, source |-> r.made[i].source,
                             mesh |-> args.meshes[Len(args.meshes)],
                             key |-> args.name]]
          /\ pc' = IF r.error = "" THEN "returned" ELSE "aborted"
    /\ UNCHANGED <<deformers_data, ti, objects, meshes, mesh, missing, raw_missing,
                   deformer_type, runs, prev, chain0, dnodes0, expanded, report,
                   removed, renamed, args, host, result>>

NextCreate == CallCreateDeformer

SpecCreate == InitCreate /\ [][NextCreate]_vars

(***************************************************************************)
(* utils.copy_deformers called for one target and one deformer_stack in    *)
(* two scenes: the scene of dnodes and chain, and a second scene kept in   *)
(* args.other.                                                             *)
(***************************************************************************)
ResolveKeys ==
    { [key |-> <<"{}", "lid", "cluster">>,   value |-> NoneValue],
      [key |-> <<"{side}", "face", "ffd">>,  value |-> NoneValue],
      [key |-> <<"{name}", "skinCluster">>,  value |-> SkinValue({"j1", "j2"}, 0)],
      [key |-> <<"M", "body", "cluster">>,   value |-> NoneValue] }

ResolveTargets ==
    { <<"M", "body", "compil", "mesh">>, <<"L", "eye", "mesh">>,
      <<"R", "eye", "mesh">> }

ResolveConfigs ==
    { << [node |-> t, deformers |-> st] >> :
        t \in ResolveTargets, st \in DistinctSeqs(ResolveKeys, MaxTemplates) }

InitResolve ==
    /\ deformers_data \in ResolveConfigs
    /\ \E scene \in StartScenes(deformers_data) :
          /\ dnodes = scene.dnodes
          /\ chain = scene.chain
          /\ chain0 = scene.chain
          /\ dnodes0 = scene.dnodes
    /\ \E scene \in StartScenes(deformers_data) :
          args = [target |-> deformers_data[1].node,
                  deformer_stack |-> Keys(deformers_data[1].deformers),
                  other |-> scene]
    /\ pc = "call"
    /\ ti = 0
    /\ objects = <<>>
    /\ meshes = <<>>
    /\ mesh = <<>>
    /\ missing = <<>>
    /\ raw_missing = <<>>
    /\ deformer_type = "unbound"
    /\ error = ""
    /\ runs = 0
    /\ prev = "none"
    /\ expanded = <<>>
    /\ report = <<>>
    /\ created = <<>>
    /\ removed = {}
    /\ renamed = <<>>
    /\ host = <<>>
    /\ result = <<>>

\* what one call of copy_deformers found and returned
Reported(target, keys, r, dn, ch) ==
    [mesh |-> target, node |-> target, keys |-> keys,
     missing |-> r.missing, found |-> r.found,
     scene |-> DOMAIN dn, before |-> ch[target]]

\* utils.py 112-156, once in each of the two scenes
CallCopyDeformers ==
    /\ pc = "call"
    /\ LET r == copy_deformers(args.target, args.deformer_stack, dnodes, chain)
           o == copy_deformers(args.target, args.deformer_stack,
                               args.other.dnodes, args.other.chain)
       IN /\ chain' = r.chain
          /\ missing' = r.missing
          /\ raw_missing' = r.raw_missing
          /\ args' = [args EXCEPT !.other.chain = o.chain]
          /\ report' = << Reported(args.target, args.deformer_stack, r, dnodes, chain),
                          Reported(args.target, args.deformer_stack, o,
                                   args.other.dnodes, args.other.chain) >>
          /\ pc' = "returned"
    /\ UNCHANGED <<deformers_data, dnodes, ti, objects, meshes, mesh, deformer_type,
                   error, runs, prev, chain0, dnodes0, expanded, created, removed,
                   renamed, host, result>>

NextResolve == CallCopyDeformers

SpecResolve == InitResolve /\ [][NextResolve]_vars

(***************************************************************************)
(* build.rename_scene(deformers_data).  In this specification dnodes holds *)
(* the deformers and the transforms of the scene that are not meshes, and  *)
(* the domain of chain is the set of its meshes.                           *)
(***************************************************************************)
Transform == Node("transform", {}, 1, <<>>, TRUE)

SkinClusterNode == Node("skinCluster", {"j1"}, 1, <<>>, TRUE)

LatticeNode == Node("ffd", {}, 1, <<>>, TRUE)

Scene(dn, ch) == [dnodes |-> dn, chain |-> ch]

\* cmds.objExists(name) in a scene of rename_scene
NodeExists(name, sc) == name \in DOMAIN sc.dnodes \/ name \in DOMAIN sc.chain

\* the name the host gives when the wanted one is taken: the first free
\* number is appended to it
NumberedToken(token) ==
    CASE token = "skinCluster" -> "skinCluster1"
      [] token = "skinCluster1" -> "skinCluster2"
      [] token = "skinCluster2" -> "skinCluster3"
      [] token = "ffd" -> "ffd1"
      [] token = "lattice" -> "lattice1"
      [] token = "mesh" -> "mesh1"
      [] token = "clusterHandle" -> "clusterHandle1"
      [] token = "loc" -> "loc1"
      [] token = "ctrl" -> "ctrl1"
      [] token = "bcs" -> "bcs1"
      [] token = "bcs1" -> "bcs2"
      [] token = "bcs2" -> "bcs3"
      [] token = "bcs3" -> "bcs4"
      [] token = "transfer" -> "transfer1"
      [] token = "transfer1" -> "transfer2"
      [] token = "transfer2" -> "transfer3"
      [] token = "transfer3" -> "transfer4"
      [] token = "retransfer" -> "retransfer1"
      [] token = "retransfer1" -> "retransfer2"
      [] token = "retransfer2" -> "retransfer3"
      [] token = "copy" -> "copy1"
      [] token = "geo" -> "geo1"
      [] token = "geo1" -> "geo2"
      [] token = "geo2" -> "geo3"
      [] token = "geo3" -> "geo4"
      [] token = "jaw" -> "jaw1"
      [] token = "jaw1" -> "jaw2"
      [] token = "jaw2" -> "jaw3"
      [] OTHER -> "taken"

RECURSIVE UniqueName(_, _)
UniqueName(name, sc) ==
    IF ~NodeExists(name, sc) THEN name
    ELSE UniqueName([name EXCEPT ![Len(name)] = NumberedToken(@)], sc)

\* cmds.rename(old, new): RuntimeError when old does not exist; the node
\* keeps its place on every chain, a mesh keeps its chain
HostRename(sc, old, new) ==
    IF ~NodeExists(old, sc) THEN [ok |-> FALSE, scene |-> sc, name |-> old]
    ELSE IF new = old THEN [ok |-> TRUE, scene |-> sc, name |-> old]
    ELSE LET final == UniqueName(new, sc)
             dn == [n \in ((DOMAIN sc.dnodes) \ {old})
                            \cup (IF old \in DOMAIN sc.dnodes THEN {final} ELSE {}) |->
                       IF n = final THEN sc.dnodes[old] ELSE sc.dnodes[n]]
             seq(m) == [i \in 1..Len(sc.chain[m]) |->
                           IF sc.chain[m][i] = old THEN final ELSE sc.chain[m][i]]
             ch == [m \in ((DOMAIN sc.chain) \ {old})
                            \cup (IF old \in DOMAIN sc.chain THEN {final} ELSE {}) |->
                       IF m = final THEN seq(old) ELSE seq(m)]
         IN [ok |-> TRUE, scene |-> Scene(dn, ch), name |-> final]

\* the outcome of a run of renames: the exception ("" when none), the scene
\* and the renames made
Renames(err, sc, log) == [error |-> err, scene |-> sc, log |-> log]

Renamed(old, new, step, mesh_) ==
    << [old |-> old, new |-> new, step |-> step, mesh |-> mesh_] >>

\* cmds.ls(pattern): the nodes of a set in the order ls lists them
RECURSIVE Listed(_)
Listed(names) ==
    IF names = {} THEN <<>>
    ELSE LET n == CHOOSE x \in names : TRUE IN <<n>> \o Listed(names \ {n})

AllNodes(sc) == (DOMAIN sc.dnodes) \cup (DOMAIN sc.chain)

\* cmds.objectType(name)
ObjectType(name, sc) ==
    IF name \in DOMAIN sc.dnodes THEN sc.dnodes[name].type ELSE "transform"

\* lines 383-386: rename_data, the two renames made by hand
rename_data(name) ==
    IF name = <<"M", "eyelash", "rig05", "mesh">>
    THEN <<"M", "eyelash", "rig", "mesh">>
    ELSE IF name = <<"M", "eyelash", "rig05", "mesh", "skinCluster">>
    THEN <<"M", "eyelash", "rig", "mesh", "skinCluster">>
    ELSE name

\* str.replace("_cluster", "_clusterHandle"), token by token
ClusterToHandle(name) ==
    [i \in 1..Len(name) |->
        IF i = 1 THEN name[i]
        ELSE CASE name[i] = "cluster" -> "clusterHandle"
               [] name[i] = "clusterHandle" -> "clusterHandleHandle"
               [] name[i] = "clusterHandleHandle" -> "clusterHandleHandleHandle"
               [] OTHER -> name[i]]

\* str.replace("_clusterHandle", "_clusterHandleHandle"), token by token
HandleToHandleHandle(name) ==
    [i \in 1..Len(name) |->
        IF i = 1 THEN name[i]
        ELSE CASE name[i] = "clusterHandle" -> "clusterHandleHandle"
               [] name[i] = "clusterHandleHandle" -> "clusterHandleHandleHandle"
               [] OTHER -> name[i]]

\* str.replace("cheebone", "cheekbone")
CheeboneToCheekbone(name) ==
    [i \in 1..Len(name) |-> IF name[i] = "cheebone" THEN "cheekbone" ELSE name[i]]

\* the new name each of the four runs of renames gives a node
NewName(step, name) ==
    CASE step = "manual" -> rename_data(name)
      [] step = "clusters" -> ClusterToHandle(name)
      [] step = "cheebone" -> CheeboneToCheekbone(name)
      [] step = "lattices" -> HandleToHandleHandle(name)

\* a run of renames over a list of nodes; with swallow an exception of
\* cmds.rename is passed over (lines 401-404), without it the exception
\* ends the run
RECURSIVE RenameEach(_, _, _, _, _)
RenameEach(names, step, swallow, sc, log) ==
    IF names = <<>> THEN Renames("", sc, log)
    ELSE LET r == HostRename(sc, Head(names), NewName(step, Head(names)))
         IN IF ~r.ok /\ ~swallow THEN Renames("RuntimeError", sc, log)
            ELSE RenameEach(Tail(names), step, swallow, r.scene,
                            IF r.ok
                            THEN log \o Renamed(Head(names), r.name, step, <<>>)
                            ELSE log)

\* lines 387-389: the keys of rename_data that exist are renamed
RenameManually(sc) ==
    RenameEach(SelectSeq(<< <<"M", "eyelash", "rig05", "mesh">>,
                            <<"M", "eyelash", "rig05", "mesh", "skinCluster">> >>,
                         LAMBDA n : NodeExists(n, sc)),
               "manual", FALSE, sc, <<>>)

EndsWith(name, tokens) == Len(name) > Len(tokens) /\ IsSuffixOf(tokens, name)

\* lines 391-395: cmds.ls(["*_cluster", "*_cluster_loc"]), transforms only
RenameClusters(sc, log) ==
    RenameEach(Listed({n \in AllNodes(sc) :
                          /\ EndsWith(n, <<"cluster">>) \/ EndsWith(n, <<"cluster", "loc">>)
                          /\ ObjectType(n, sc) = "transform"}),
               "clusters", FALSE, sc, log)

\* lines 397-404: cmds.ls("*cheebone*"), but for the shapes
RenameCheebone(sc, log) ==
    RenameEach(Listed({n \in AllNodes(sc) :
                          /\ \E i \in 1..Len(n) : n[i] = "cheebone"
                          /\ n[Len(n)] # "Shape"}),
               "cheebone", TRUE, sc, log)

\* lines 406-416: cmds.ls(["*_lattice_clusterHandle_loc",
\* "*__lattice_clusterHandle"])
RenameLattices(sc, log) ==
    RenameEach(Listed({n \in AllNodes(sc) :
                          \/ EndsWith(n, <<"lattice", "clusterHandle", "loc">>)
                          \/ EndsWith(n, <<"", "lattice", "clusterHandle">>)}),
               "lattices", FALSE, sc, log)

\* utils.get_meshes([i]) for every i (utils.py 424-449): the meshes the
\* two loops over the nodes visit, each with the index of its node; a
\* node that does not exist is skipped, but for M_eyelash_rig_mesh, in
\* whose place get_children("M_eyelash_rig05_mesh") is called and raises
\* ValueError when that one does not exist either
Visit(m, i, raises) == [mesh |-> m, item |-> i, raises |-> raises]

get_meshes(data, sc) ==
    Flatten([i \in 1..Len(data) |->
        LET objs == ExpandNode(data[i].node)
        IN Flatten([j \in 1..Len(objs) |->
              IF NodeExists(objs[j], sc) THEN << Visit(objs[j], i, FALSE) >>
              ELSE IF objs[j] # <<"M", "eyelash", "rig", "mesh">> THEN <<>>
              ELSE IF NodeExists(<<"M", "eyelash", "rig05", "mesh">>, sc)
              THEN << Visit(<<"M", "eyelash", "rig05", "mesh">>, i, FALSE) >>
              ELSE << Visit(<<>>, i, TRUE) >>])])

\* utils.list_deformers(mesh, types): the deformers of the history of the
\* mesh that are of one of the types
list_deformers(mesh_, types, sc) ==
    SelectSeq(sc.chain[mesh_], LAMBDA n : sc.dnodes[n].type \in types)

\* lines 424-429: the first key of the stack that ends with "_skinCluster"
FirstSkinClusterKey(keys) ==
    LET hits == {i \in 1..Len(keys) : EndsWith(keys[i], <<"skinCluster">>)}
    IN IF hits = {} THEN <<>> ELSE keys[CHOOSE i \in hits : \A j \in hits : i <= j]

\* lines 438-442: the two formats of the key
SkinClusterName(key, mesh_) ==
    LET named == IF StartsWith(key, "{name}") THEN FormatName(key, mesh_) ELSE key
    IN IF StartsWith(named, "{side}") THEN FormatSideKw(named, SplitFirst(mesh_))
       ELSE named

\* what the skinCluster pass found for a mesh
Found(mesh_, skincluster, name) ==
    [mesh |-> mesh_, skincluster |-> skincluster, skincluster_name |-> name]

\* the skinCluster pass with the test of line 445 left out: the first
\* skinCluster of the history takes the name
RenameSkinCluster_PicksFirst(mesh_, keys, sc) ==
    LET key == FirstSkinClusterKey(keys)
        skincluster == list_deformers(mesh_, {"skinCluster"}, sc)
        name == IF key = <<>> THEN <<>> ELSE SkinClusterName(key, mesh_)
    IN IF skincluster = <<>> \/ key = <<>>
       THEN [error |-> "", scene |-> sc, log |-> <<>>,
             found |-> Found(mesh_, skincluster, name)]
       ELSE LET r == HostRename(sc, skincluster[1], name)
            IN [error |-> IF r.ok THEN "" ELSE "RuntimeError", scene |-> r.scene,
                log |-> IF r.ok THEN Renamed(skincluster[1], r.name, "skin", mesh_)
                        ELSE <<>>,
                found |-> Found(mesh_, skincluster, name)]

\* lines 421-450: one turn of the loop over the meshes.  skincluster is a
\* list, so the test of line 443 against the name never holds; cmds.rename
\* is given the list of the one skinCluster
RenameSkinCluster(mesh_, keys, sc) ==
    LET key == FirstSkinClusterKey(keys)
        skincluster == list_deformers(mesh_, {"skinCluster"}, sc)
        name == IF key = <<>> THEN <<>> ELSE SkinClusterName(key, mesh_)
    IN IF skincluster = <<>> \/ key = <<>>
       THEN [error |-> "", scene |-> sc, log |-> <<>>,
             found |-> Found(mesh_, skincluster, name)]
       ELSE IF Len(skincluster) > 1
       THEN [error |-> "RuntimeError", scene |-> sc, log |-> <<>>,
             found |-> Found(mesh_, skincluster, name)]
       ELSE LET r == HostRename(sc, skincluster[1], name)
            IN [error |-> IF r.ok THEN "" ELSE "RuntimeError", scene |-> r.scene,
                log |-> IF r.ok THEN Renamed(skincluster[1], r.name, "skin", mesh_)
                        ELSE <<>>,
                found |-> Found(mesh_, skincluster, name)]

\* actual.replace(suffix, data["suffix"]), token by token
ReplaceSuffix(actual, suffix) ==
    [i \in 1..Len(actual) |->
        IF actual[i] = SplitLast(actual) THEN suffix ELSE actual[i]]

\* lines 460-473: the loop over DEFORMER_SUFFIX_ASSOCIATIONS for one
\* deformer, from association k on; actual keeps the name the deformer had
\* when the pass listed it
RECURSIVE RenameBySuffix(_, _, _, _, _, _)
RenameBySuffix(actual, typ, k, mesh_, sc, log) ==
    IF k > Len(DEFORMER_SUFFIX_ASSOCIATIONS) THEN Renames("", sc, log)
    ELSE LET data == DEFORMER_SUFFIX_ASSOCIATIONS[k]
             new_name == ReplaceSuffix(actual, data.suffix)
         IN IF data.type # typ \/ SplitLast(actual) = data.suffix \/ actual = new_name
            THEN RenameBySuffix(actual, typ, k + 1, mesh_, sc, log)
            ELSE LET r == HostRename(sc, actual, new_name)
                 IN IF ~r.ok THEN Renames("RuntimeError", sc, log)
                    ELSE RenameBySuffix(actual, typ, k + 1, mesh_, r.scene,
                                        log \o Renamed(actual, r.name, "other", mesh_))

\* lines 455-473: one turn of the loop over the meshes, for the deformers
\* listed at its start
RECURSIVE RenameOthers(_, _, _, _, _)
RenameOthers(actual_deformers, types, mesh_, sc, log) ==
    IF actual_deformers = <<>> THEN Renames("", sc, log)
    ELSE LET r == RenameBySuffix(Head(actual_deformers), Head(types), 1, mesh_, sc, log)
         IN IF r.error # "" THEN r
            ELSE RenameOthers(Tail(actual_deformers), Tail(types), mesh_,
                              r.scene, r.log)

\* The configurations and the scenes rename_scene is called with.
RenameTargets == { <<"M", "eyelash", "rig", "mesh">>, <<"M", "body", "compil", "mesh">> }

RenamePool ==
    { [key |-> <<"{name}", "skinCluster">>,       value |-> SkinValue({"j1"}, 0)],
      [key |-> <<"M", "head", "skinCluster">>,    value |-> SkinValue({"j1"}, 0)],
      [key |-> <<"M", "face", "ffd">>,            value |-> NoneValue] }

RenameConfigs ==
    { [i \in 1..Len(ts) |-> [node |-> ts[i], deformers |-> st]] :
        ts \in DistinctSeqs(RenameTargets, MaxTargets),
        st \in DistinctSeqs(RenamePool, MaxSpecs) }

BodyMesh == <<"M", "body", "compil", "mesh">>

EyelashMeshes == { <<"M", "eyelash", "rig05", "mesh">>, <<"M", "eyelash", "rig", "mesh">> }

EyelashChains(m) ==
    { <<>>, << m \o <<"skinCluster">> >>, << <<"skinCluster1">> >>,
      << m \o <<"skinCluster">>, <<"skinCluster1">> >> }

BodyChains ==
    { <<>>, << <<"skinCluster2">> >>, << <<"skinCluster2">>, <<"skinCluster1">> >>,
      << <<"M", "face", "lattice">> >>,
      << <<"M", "face", "lattice">>, <<"skinCluster2">> >> }

SceneTransforms ==
    { {},
      { <<"M", "jaw", "cluster">>, <<"M", "face", "lattice", "cluster", "loc">>,
        <<"L", "cheebone", "ctrl">> } }

RenameNode(name) ==
    IF SplitLast(name) = "lattice" THEN LatticeNode
    ELSE IF SplitLast(name) \in {"skinCluster", "skinCluster1", "skinCluster2"}
    THEN SkinClusterNode
    ELSE Transform

RenameScenes ==
    { Scene([n \in Range(b) \cup ts |-> RenameNode(n)],
            [m \in {BodyMesh} |-> b]) : b \in BodyChains, ts \in SceneTransforms }
    \cup
    { Scene([n \in Range(b) \cup Range(e) \cup ts |-> RenameNode(n)],
            [m \in {BodyMesh, em} |-> IF m = em THEN e ELSE b]) :
        em \in EyelashMeshes, e \in UNION {EyelashChains(x) : x \in EyelashMeshes},
        b \in BodyChains, ts \in SceneTransforms }

InitRename ==
    /\ deformers_data \in RenameConfigs
    /\ \E scene \in RenameScenes :
          /\ \A m \in DOMAIN scene.chain :
                m \in EyelashMeshes => scene.chain[m] \in EyelashChains(m)
          /\ dnodes = scene.dnodes
          /\ chain = scene.chain
          /\ chain0 = scene.chain
          /\ dnodes0 = scene.dnodes
    /\ pc = "idle"
    /\ ti = 0
    /\ objects = <<>>
    /\ meshes = <<>>
    /\ mesh = <<>>
    /\ missing = <<>>
    /\ raw_missing = <<>>
    /\ deformer_type = "unbound"
    /\ error = ""
    /\ runs = 0
    /\ prev = "none"
    /\ expanded = <<>>
    /\ report = <<>>
    /\ created = <<>>
    /\ removed = {}
    /\ renamed = <<>>
    /\ args = <<>>
    /\ host = <<>>
    /\ result = <<>>

\* a call of rename_scene(deformers_data) begins
StartRename ==
    /\ pc \in {"idle", "done"}
    /\ runs < MaxRuns
    /\ runs' = runs + 1
    /\ prev' = IF pc = "idle" THEN "none" ELSE pc
    /\ pc' = "manual"
    /\ meshes' = <<>>
    /\ mesh' = <<>>
    /\ error' = ""
    /\ chain0' = chain
    /\ dnodes0' = dnodes
    /\ report' = <<>>
    /\ renamed' = <<>>
    /\ UNCHANGED <<deformers_data, dnodes, chain, ti, objects, missing, raw_missing,
                   deformer_type, expanded, created, removed, args, host, result>>

\* one of the four runs of renames that come before the loops over the
\* nodes (lines 383-416); after the last of them the first loop begins
FixedRenames(step, r, next) ==
    /\ pc = step
    /\ dnodes' = r.scene.dnodes
    /\ chain' = r.scene.chain
    /\ renamed' = r.log
    /\ error' = r.error
    /\ pc' = IF r.error # "" THEN "aborted" ELSE next
    /\ UNCHANGED <<deformers_data, ti, objects, mesh, missing, raw_missing,
                   deformer_type, runs, prev, chain0, dnodes0, expanded, report,
                   created, removed, args, host, result>>

StepManual ==
    /\ FixedRenames("manual", RenameManually(Scene(dnodes, chain)), "clusters")
    /\ UNCHANGED meshes

StepClusters ==
    /\ FixedRenames("clusters", RenameClusters(Scene(dnodes, chain), renamed), "cheebone")
    /\ UNCHANGED meshes

StepCheebone ==
    /\ FixedRenames("cheebone", RenameCheebone(Scene(dnodes, chain), renamed), "lattices")
    /\ UNCHANGED meshes

StepLattices ==
    LET r == RenameLattices(Scene(dnodes, chain), renamed)
    IN /\ FixedRenames("lattices", r,
                       IF get_meshes(deformers_data, r.scene) = <<>> THEN "done"
                       ELSE "skin")
       /\ meshes' = get_meshes(deformers_data, r.scene)

\* lines 419-450: the next mesh of the loop that renames the skinClusters
StepSkinCluster ==
    /\ pc = "skin"
    /\ LET visit == Head(meshes)
           r == RenameSkinCluster(visit.mesh, Keys(deformers_data[visit.item].deformers),
                                  Scene(dnodes, chain))
       IN IF visit.raises
          THEN /\ pc' = "aborted"
               /\ error' = "ValueError"
               /\ UNCHANGED <<dnodes, chain, meshes, mesh, report, renamed>>
          ELSE /\ dnodes' = r.scene.dnodes
               /\ chain' = r.scene.chain
               /\ mesh' = visit.mesh
               /\ report' = Append(report, r.found)
               /\ renamed' = renamed \o r.log
               /\ error' = r.error
               /\ pc' = IF r.error # "" THEN "aborted"
                        ELSE IF Tail(meshes) # <<>> THEN "skin" ELSE "other"
               /\ meshes' = IF r.error # "" \/ Tail(meshes) # <<>> THEN Tail(meshes)
                            ELSE get_meshes(deformers_data, r.scene)
    /\ UNCHANGED <<deformers_data, ti, objects, missing, raw_missing, deformer_type,
                   runs, prev, chain0, dnodes0, expanded, created, removed, args, host, result>>

\* lines 452-473: the next mesh of the loop that renames the other deformers
StepOthers ==
    /\ pc = "other"
    /\ LET visit == Head(meshes)
           sc == Scene(dnodes, chain)
           actual_deformers == list_deformers(visit.mesh,
                                              {"cluster", "ffd", "skinCluster"}, sc)
           types == [i \in 1..Len(actual_deformers) |-> dnodes[actual_deformers[i]].type]
           r == RenameOthers(actual_deformers, types, visit.mesh, sc, <<>>)
       IN IF visit.raises
          THEN /\ pc' = "aborted"
               /\ error' = "ValueError"
               /\ UNCHANGED <<dnodes, chain, meshes, mesh, renamed>>
          ELSE /\ dnodes' = r.scene.dnodes
               /\ chain' = r.scene.chain
               /\ mesh' = visit.mesh
               /\ renamed' = renamed \o r.log
               /\ error' = r.error
               /\ pc' = IF r.error # "" THEN "aborted"
                        ELSE IF Tail(meshes) # <<>> THEN "other" ELSE "done"
               /\ meshes' = Tail(meshes)
    /\ UNCHANGED <<deformers_data, ti, objects, missing, raw_missing, deformer_type,
                   runs, prev, chain0, dnodes0, expanded, report, created, removed,
                   args, host, result>>

NextRename ==
    \/ StartRename
    \/ StepManual
    \/ StepClusters
    \/ StepCheebone
    \/ StepLattices
    \/ StepSkinCluster
    \/ StepOthers

SpecRename == InitRename /\ [][NextRename]_vars

(***************************************************************************)
(* Vocabulary of the properties.                                           *)
(***************************************************************************)
\* the suffix of the name has an entry in DEFORMER_SUFFIX_ASSOCIATIONS
Resolvable(name) == SuffixType(SplitLast(name), "") # ""

AllResolvable(keys) == \A i \in 1..Len(keys) : Resolvable(keys[i])

\* the resolved names of the first k keys of a stack for mesh m, in the
\* order of the stack
StackNames(keys, k, m) == Flatten([i \in 1..k |-> ResolveNames(keys[i], m)])

\* the names the current call created while it reconciled mesh m, in order
CreatedFor(m) ==
    LET mine == SelectSeq(created, LAMBDA c : c.mesh = m)
    IN [i \in 1..Len(mine) |-> mine[i].name]

\* a second call that follows a completed call with nothing in between
SecondRun == runs >= 2 /\ prev = "done"

(***************************************************************************)
(* C1.  Idempotence as claimed: for any target and any spec sequence, a    *)
(* second call right after a first one finds nothing missing, skips every  *)
(* spec and creates no deformer node.  The entry whose suffix has no       *)
(* association is not created by the first call and is missing again.      *)
(***************************************************************************)
C1_IdempotentAnyStack ==
    SecondRun =>
        /\ \A i \in 1..Len(report) : report[i].missing = <<>>
        /\ created = <<>>

\* C1 amended: for a spec sequence whose names all carry a suffix of the
\* association table, the second call after a completed first call reports
\* nothing missing for any mesh, finds every name of the stack, creates no
\* deformer node and leaves every deformer node as it was.
C1_IdempotentResolvable ==
    (SecondRun /\ AllResolvable(Keys(deformers_data[1].deformers))) =>
        /\ \A i \in 1..Len(report) :
              /\ report[i].missing = <<>>
              /\ Len(report[i].found) = Len(report[i].keys)
        /\ created = <<>>
        /\ dnodes = dnodes0

C1_Witness ==
    /\ SecondRun
    /\ pc = "done"
    /\ AllResolvable(Keys(deformers_data[1].deformers))
    /\ Len(report) = 2
    /\ Len(report[1].found) = 3
    /\ dnodes0 # << >>

(***************************************************************************)
(* C2.  Order preservation as claimed: a mesh that had no deformer has,    *)
(* after one completed call, exactly the deformers of the spec sequence on *)
(* its chain, in the order of the sequence.                                *)
(***************************************************************************)
C2_OrderAnyScene ==
    pc = "done" =>
        \A i \in 1..Len(report) :
            report[i].before = <<>> =>
                chain[report[i].mesh] =
                    StackNames(report[i].keys, Len(report[i].keys), report[i].mesh)

\* C2 amended: for a mesh that had no deformer, when none of the names of
\* its stack exists in the scene yet and every name carries a suffix of the
\* association table, the chain after one completed call holds exactly the
\* deformers of the stack, in the order of the stack.
C2_OrderFreshNames ==
    pc = "done" =>
        \A i \in 1..Len(report) :
            ( /\ report[i].before = <<>>
              /\ report[i].found = <<>>
              /\ AllResolvable(report[i].keys) ) =>
                chain[report[i].mesh] =
                    StackNames(report[i].keys, Len(report[i].keys), report[i].mesh)

C2_Witness ==
    /\ pc = "done"
    /\ runs = 1
    /\ Len(report) = 1
    /\ report[1].before = <<>>
    /\ report[1].found = <<>>
    /\ report[1].keys = << <<"M", "body", "cluster">>, <<"{name}", "skinCluster">>,
                           <<"{name}", "shrinkWrap">> >>
    /\ chain[report[1].mesh] =
          << <<"M", "body", "cluster">>,
             <<"M", "body", "compil", "mesh", "skinCluster">>,
             <<"M", "body", "compil", "mesh", "shrinkWrap">> >>

(***************************************************************************)
(* C3.  Partial-stack convergence as claimed: on a mesh that has the first *)
(* k of the n deformers of its stack, a completed call creates exactly the *)
(* other n-k.                                                              *)
(***************************************************************************)
HasFirstK(e, k) ==
    /\ k \in 0..Len(e.keys)
    /\ e.before = StackNames(e.keys, k, e.mesh)

C3_CreatesRestAnyScene ==
    pc = "done" =>
        \A i \in 1..Len(report) : \A k \in 0..Len(report[i].keys) :
            HasFirstK(report[i], k) =>
                /\ Len(CreatedFor(report[i].mesh)) = Len(report[i].keys) - k
                /\ Range(CreatedFor(report[i].mesh)) \cup Range(report[i].before)
                      = Range(StackNames(report[i].keys, Len(report[i].keys),
                                         report[i].mesh))

\* C3 amended: on a mesh that has the first k of the n deformers of its
\* stack, when none of the other n-k names exists in the scene yet and
\* every name carries a suffix of the association table, a completed call
\* creates exactly the other n-k deformers, and the k deformers that were
\* present keep their place on the chain and every attribute they had.
C3_CreatesRestFreshNames ==
    pc = "done" =>
        \A i \in 1..Len(report) : \A k \in 0..Len(report[i].keys) :
            ( /\ HasFirstK(report[i], k)
              /\ Len(report[i].found) = k
              /\ AllResolvable(report[i].keys) ) =>
                /\ Len(CreatedFor(report[i].mesh)) = Len(report[i].keys) - k
                /\ Range(CreatedFor(report[i].mesh)) \cup Range(report[i].before)
                      = Range(StackNames(report[i].keys, Len(report[i].keys),
                                         report[i].mesh))
                /\ IsSuffixOf(report[i].before, chain[report[i].mesh])
                /\ \A n \in Range(report[i].before) : dnodes[n] = dnodes0[n]

C3_Witness ==
    /\ pc = "done"
    /\ Len(report) = 1
    /\ Len(report[1].keys) = 3
    /\ AllResolvable(report[1].keys)
    /\ HasFirstK(report[1], 1)
    /\ Len(report[1].found) = 1
    /\ Len(CreatedFor(report[1].mesh)) = 2

(***************************************************************************)
(* C4.  Unresolvable kind is never defaulted: no deformer is created for a *)
(* name whose suffix has no association, and such a name does not end the  *)
(* call: only that single spec fails.                                      *)
(***************************************************************************)
C4_UnresolvableNeverCreated ==
    /\ \A i \in 1..Len(created) : Resolvable(created[i].name)
    /\ ~(pc = "aborted" /\ missing # <<>> /\ ~Resolvable(Head(missing)))

(***************************************************************************)
(* C5.  Failure isolation: a creation the host rejects never leaves a      *)
(* later missing spec, mesh or target of the batch unprocessed.            *)
(***************************************************************************)
C5_RejectionIsolated ==
    ~( /\ pc = "aborted"
       /\ error = "RuntimeError"
       /\ \/ Len(missing) > 1
          \/ meshes # <<>>
          \/ objects # <<>>
          \/ ti < Len(deformers_data) )

(***************************************************************************)
(* C6.  Missing target is non-fatal: a target that is not in the scene     *)
(* does not keep the call from the other targets of the batch.             *)
(***************************************************************************)
C6_MissingTargetContinues ==
    ~( /\ pc = "aborted"
       /\ error = "ValueError"
       /\ \/ Len(objects) > 1
          \/ ti < Len(deformers_data) )

(***************************************************************************)
(* C7.  Reconcile never deletes and never reorders: at every point of a    *)
(* call, whether it completes or not, the chain every mesh had when the    *)
(* call started is still there, in its order, and what the call added is   *)
(* appended at the shape end.                                              *)
(***************************************************************************)
C7_NeverDeletesNorReorders ==
    \A m \in DOMAIN chain : IsSuffixOf(chain0[m], chain[m])

C7_Witness ==
    /\ pc \in {"done", "aborted"}
    /\ \E m \in DOMAIN chain :
          /\ Len(chain0[m]) >= 2
          /\ Len(chain[m]) > Len(chain0[m])

(***************************************************************************)
(* C8.  Side expansion: a target that starts with "{}" stands for exactly  *)
(* the L object and the R object, in that order, any other target for      *)
(* itself, and a completed call has reconciled every mesh of every object  *)
(* once, each against the keys of the stack of its target.                 *)
(***************************************************************************)
C8_SideExpansion ==
    /\ \A i \in 1..Len(expanded) :
          LET node == expanded[i].node
          IN expanded[i].objects =
                (IF node[1] = "{}"
                 THEN << <<"L">> \o Tail(node), <<"R">> \o Tail(node) >>
                 ELSE << node >>)
    /\ pc = "done" =>
          /\ [i \in 1..Len(report) |-> report[i].mesh] =
                Flatten([i \in 1..Len(deformers_data) |->
                    LET node == deformers_data[i].node
                    IN IF node[1] = "{}"
                       THEN MeshesOfObject(<<"L">> \o Tail(node))
                            \o MeshesOfObject(<<"R">> \o Tail(node))
                       ELSE MeshesOfObject(node)])
          /\ \A i \in 1..Len(report) :
                \E j \in 1..Len(deformers_data) :
                    /\ report[i].node = deformers_data[j].node
                    /\ report[i].keys = Keys(deformers_data[j].deformers)

C8_Witness ==
    /\ pc = "done"
    /\ Len(deformers_data) = 2
    /\ deformers_data[1].node = <<"{}", "eye", "grp">>
    /\ Len(report) = 3
    /\ report[1].mesh = <<"L", "eye", "mesh">>
    /\ report[2].mesh = <<"R", "eye", "mesh">>
    /\ report[2].keys = report[1].keys

(***************************************************************************)
(* C9.  Skip test as claimed: a name of the stack is skipped exactly when  *)
(* a deformer of that name exists and is on the mesh already; a deformer   *)
(* that exists on another mesh only makes the spec missing.                *)
(***************************************************************************)
WalkNames(e) == {w.name : w \in Range(WalkStack(e.keys, e.mesh))}

C9_SkippedIffAttached ==
    \A i \in 1..Len(report) : \A n \in WalkNames(report[i]) :
        n \notin Range(report[i].missing)
            <=> (n \in report[i].scene /\ n \in Range(report[i].before))

\* C9 amended: a name of the stack is reported missing exactly when no
\* node of that name exists in the scene; a deformer that exists is not
\* reported missing, and it is on the chain of the mesh from then on,
\* whether it was on it before or not.
C9_MissingIffAbsent ==
    \A i \in 1..Len(report) : \A n \in WalkNames(report[i]) :
        /\ n \in Range(report[i].missing) <=> n \notin report[i].scene
        /\ n \in report[i].scene => n \in Range(chain[report[i].mesh])

C9_Witness ==
    \E i \in 1..Len(report) : \E n \in WalkNames(report[i]) :
        /\ n \in report[i].scene
        /\ n \notin Range(report[i].before)
        /\ n \notin Range(report[i].missing)
        /\ n \in Range(chain[report[i].mesh])

(***************************************************************************)
(* C10.  skinCluster reuse: when a skinCluster of the resolved name of a   *)
(* skinCluster spec exists elsewhere in the scene, a completed call has    *)
(* added the joints of the spec to it and set the envelope of the spec on  *)
(* it.                                                                     *)
(***************************************************************************)
C10_SkinClusterReused ==
    pc = "done" =>
        \A i \in 1..Len(report) : \A w \in Range(WalkStack(report[i].keys, report[i].mesh)) :
            LET value == ValueOf(deformers_data[1].deformers, w.raw)
            IN ( /\ SuffixType(SplitLast(w.name), "") = "skinCluster"
                 /\ w.name \in report[i].scene
                 /\ w.name \notin Range(report[i].before) ) =>
                    /\ value.joints \subseteq dnodes[w.name].joints
                    /\ dnodes[w.name].envelope = value.envelope

(***************************************************************************)
(* C11.  AmbiguousSkinCluster as claimed: when rename_scene finds more     *)
(* than one skinCluster on a mesh whose stack names a skinCluster, the     *)
(* call ends with the error at that mesh and no skinCluster of the mesh    *)
(* was given another name by the call.                                     *)
(***************************************************************************)
Ambiguous(e) == Len(e.skincluster) > 1 /\ e.skincluster_name # <<>>

StopsAt(i) ==
    /\ pc = "aborted"
    /\ error = "RuntimeError"
    /\ i = Len(report)
    /\ mesh = report[i].mesh

C12_ValidAfterFailure ==
    pc = "aborted" =>
        \A i \in 1..Len(created) :
            /\ created[i].name \in DOMAIN dnodes
            /\ dnodes[created[i].name].configured

(***************************************************************************)
(* C14.  Suffix resolution: every deformer the call created has the type   *)
(* the association table gives for the last token of its own name,         *)
(* wherever its spec stands in the stack.                                  *)
(***************************************************************************)
C14_KindFromOwnSuffix ==
    \A i \in 1..Len(created) :
        created[i].type = SuffixType(SplitLast(created[i].name), "")

(***************************************************************************)
(* C13.  Reported lists as claimed: for every mesh of a completed call the *)
(* applied list (what was created for the mesh) and the skipped list hold  *)
(* every spec exactly once between them, and for a mesh that had no        *)
(* deformer the applied list is the stack in its order and nothing is      *)
(* skipped.                                                                *)
(***************************************************************************)
Applied(e) == CreatedFor(e.mesh)

ReverseStackNames(keys, m) ==
    Flatten([i \in 1..Len(keys) |-> ResolveNames(keys[Len(keys) + 1 - i], m)])

ReportedNames(e) == Range(e.missing) \cup Range(e.found)

FollowsSide(e, k) ==
    \A n \in ReportedNames(e) \cup Range(chain[e.mesh]) :
        Tail(n) = Tail(k) => n[1] = e.mesh[1]

C17_EverySideKeyFollowsTarget ==
    \A i \in 1..Len(report) : \A j \in 1..Len(report[i].keys) :
        report[i].keys[j][1] \in {"{}", "{side}"} =>
            FollowsSide(report[i], report[i].keys[j])

\* C17 amended: for a key that starts with "{side}" exactly one name is
\* resolved for a mesh, it carries the first token of the name of the
\* mesh, and no deformer of that key with another side is reported for the
\* mesh or put on its chain.
C17_SideKwFollowsTarget ==
    \A i \in 1..Len(report) : \A j \in 1..Len(report[i].keys) :
        report[i].keys[j][1] = "{side}" =>
            /\ (<<report[i].mesh[1]>> \o Tail(report[i].keys[j]))
                  \in ReportedNames(report[i])
            /\ FollowsSide(report[i], report[i].keys[j])

C17_Witness ==
    /\ pc = "done"
    /\ \E i \in 1..Len(report) :
          /\ report[i].mesh = <<"R", "eye", "mesh">>
          /\ <<"{side}", "face", "ffd">> \in Range(report[i].keys)
          /\ <<"{}", "lid", "cluster">> \in Range(report[i].keys)
          /\ <<"R", "face", "ffd">> \in Range(chain[report[i].mesh])
          /\ <<"L", "lid", "cluster">> \in Range(chain[report[i].mesh])
          /\ \E c \in Range(created) : c.name = <<"R", "face", "ffd">>

(***************************************************************************)
(* C18.  Reverse application order: of two deformers the call created for  *)
(* one mesh, the one created first never belongs to a key that stands      *)
(* earlier in the stack than the key of the other.                         *)
(***************************************************************************)
KeyPos(k) ==
    CHOOSE i \in 1..Len(deformers_data[1].deformers) :
        deformers_data[1].deformers[i].key = k

C18_LastSpecCreatedFirst ==
    \A a, b \in 1..Len(created) :
        (a < b /\ created[a].mesh = created[b].mesh) =>
            KeyPos(created[a].key) >= KeyPos(created[b].key)

C18_Witness ==
    /\ pc = "done"
    /\ \E a, b \in 1..Len(created) :
          /\ a < b
          /\ created[a].mesh = created[b].mesh
          /\ KeyPos(created[a].key) = 3
          /\ KeyPos(created[b].key) = 1

TableType(name) ==
    LET hits == {i \in 1..Len(DEFORMER_SUFFIX_ASSOCIATIONS) :
                    DEFORMER_SUFFIX_ASSOCIATIONS[i].suffix = name[Len(name)]}
    IN IF hits = {} THEN ""
       ELSE DEFORMER_SUFFIX_ASSOCIATIONS[CHOOSE i \in hits : \A j \in hits : i <= j].type

ExpectedType ==
    IF args.deformer_type # "" THEN args.deformer_type ELSE TableType(args.name)

C19_ExplicitKindFirst ==
    pc \in {"returned", "aborted"} =>
        /\ \A i \in 1..Len(created) :
              created[i].type = ExpectedType /\ created[i].name = args.name
        /\ \A n \in DOMAIN dnodes : n = args.name /\ dnodes[n].type = ExpectedType
        /\ (pc = "returned" /\ ExpectedType # "") =>
              (Len(created) = 1 /\ args.name \in DOMAIN dnodes)
        /\ ExpectedType = "" =>
              (pc = "returned" /\ created = <<>> /\ dnodes = dnodes0 /\ chain = chain0)

C19_Witness ==
    /\ pc = "returned"
    /\ args.deformer_type = "bend"
    /\ args.name = <<"M", "teeth", "lattice">>
    /\ Len(created) = 1
    /\ created[1].type = "bend"

(***************************************************************************)
(* C16.  Name resolution is deterministic: two calls of copy_deformers     *)
(* with the same deformer_stack and the same target resolve the same       *)
(* names, each as often, whatever deformers the two scenes hold.           *)
(***************************************************************************)
C16_SameNamesAnyScene ==
    pc = "returned" =>
        /\ ReportedNames(report[1]) = ReportedNames(report[2])
        /\ Len(report[1].missing) + Len(report[1].found)
              = Len(report[2].missing) + Len(report[2].found)

C16_Witness ==
    /\ pc = "returned"
    /\ report[1].scene # report[2].scene
    /\ report[1].missing # report[2].missing
    /\ report[1].found # <<>>
    /\ report[2].found # <<>>
    /\ \E i \in 1..Len(args.deformer_stack) : args.deformer_stack[i][1] = "{}"

(***************************************************************************)
(* C15.  No cached graph state: a deformer that was removed after the      *)
(* previous call returned is marked missing by the first mesh of the next  *)
(* call whose stack resolves its name, whatever the previous call found    *)
(* or created; for every mesh of that call the name is missing exactly     *)
(* when it is not in the scene at that moment; and when the call has       *)
(* returned, and until the deformer is removed once more, it exists again, *)
(* was created by this call and is on the chain of every mesh whose stack  *)
(* resolves its name.                                                      *)
(***************************************************************************)
RemovedBefore(run) == {r.name : r \in {x \in removed : x.run = run - 1}}

Resolving(n) == {i \in 1..Len(report) : n \in ReportedNames(report[i])}

C15_RemovedIsCreatedAgain ==
    \A n \in RemovedBefore(runs) :
        /\ \A i \in Resolving(n) :
              /\ n \in Range(report[i].missing) <=> n \notin report[i].scene
              /\ (\A j \in Resolving(n) : i <= j) => n \in Range(report[i].missing)
        /\ (pc = "done" /\ Resolving(n) # {} /\ n \notin RemovedBefore(runs + 1)) =>
              /\ n \in DOMAIN dnodes
              /\ \E k \in 1..Len(created) : created[k].name = n
              /\ \A i \in Resolving(n) : n \in Range(chain[report[i].mesh])

C15_Witness ==
    /\ pc = "done"
    /\ runs = 2
    /\ \E n \in RemovedBefore(runs) :
          /\ n \notin DOMAIN dnodes0
          /\ n \in DOMAIN dnodes
          /\ Cardinality(Resolving(n)) >= 2
          /\ \E i \in Resolving(n) : n \in Range(report[i].found)
          /\ \E k \in 1..Len(created) : created[k].name = n

(***************************************************************************)
(* Direct calls of the rig-assembly functions.  The variables of the       *)
(* deformer reconcile are at rest; host is the scene, args the arguments   *)
(* of the call and result the calls made so far: function, arguments,      *)
(* value returned, exception, and the scene before and after.              *)
(***************************************************************************)
ReconcileVars ==
    <<deformers_data, dnodes, chain, ti, objects, meshes, mesh, missing, raw_missing,
      deformer_type, prev, chain0, dnodes0, expanded, report, created, removed,
      renamed>>

NoReconcile ==
    /\ deformers_data = <<>>
    /\ dnodes = <<>>
    /\ chain = <<>>
    /\ chain0 = <<>>
    /\ dnodes0 = <<>>
    /\ ti = 0
    /\ objects = <<>>
    /\ meshes = <<>>
    /\ mesh = <<>>
    /\ missing = <<>>
    /\ raw_missing = <<>>
    /\ deformer_type = "unbound"
    /\ prev = "none"
    /\ expanded = <<>>
    /\ report = <<>>
    /\ created = <<>>
    /\ removed = {}
    /\ renamed = <<>>

Called(fn, a, value, err, before, after) ==
    [fn |-> fn, args |-> a, value |-> value, error |-> err, before |-> before,
     after |-> after]

(***************************************************************************)
(* BCS nodes:                                                              *)
(*   utils.transfer_bcs_node        (src/utils.py 218-247)                 *)
(*   utils.export_scene             (src/utils.py 343-345)                 *)
(*   build.export_bcs_node          (src/build.py 267-315)                 *)
(*                                                                         *)
(* The scene is a record: nodes (name -> type and, for a BCS node, the     *)
(* mesh it works on), the files exported, the warnings shown, and keeps:   *)
(* whether the DPK_bcs_transfer script of the host leaves the node it      *)
(* transfers from in the scene.  A path is the sequence of its characters. *)
(***************************************************************************)
MaxBcs == 2      \* most BCS nodes passed to export_bcs_node
MaxCalls == 2    \* direct calls of transfer_bcs_node in one behaviour

None == <<>>     \* None, and the empty str and list, which `not x` cannot tell apart

BcsPool ==
    { <<"M", "body", "bs", "bcs">>, <<"M", "body", "bs", "bcs", "transfer">>,
      <<"M", "jaw", "retransfer">> }

BodyGeo == <<"M", "body", "geo">>
CopyGeo == <<"M", "copy", "geo">>

BcsNode(mesh_) == [type |-> "DPK_bcs", mesh |-> mesh_]
MeshNode == [type |-> "mesh", mesh |-> None]

BcsScenes ==
    { [nodes |-> [n \in present \cup {BodyGeo, CopyGeo} |->
                     IF n \in present THEN BcsNode(BodyGeo) ELSE MeshNode],
       files |-> {}, warnings |-> 0, keeps |-> k] :
        present \in (SUBSET BcsPool) \ {{}}, k \in BOOLEAN }

BcsNodesOf(h) == {n \in DOMAIN h.nodes : h.nodes[n].type = "DPK_bcs"}

PathPool ==
    { None, <<"a", ".", "m", "a">>, <<"a", ".", "m", "b">>, <<"a", ".", "t", "x", "t">>,
      <<"a", ".", "M", "A">>, <<"m", "a">>, <<"a", ".", "m", "a", "x">> }

\* lines 288-293: <project>/<asset>/.../<asset>_bcs_nodes.ma
DefaultPath == <<"p", "_", "b", "c", "s", "_", "n", "o", "d", "e", "s", ".", "m", "a">>

\* bcs_node.endswith("transfer"): the characters of the name, so of its last token
EndsWithTransfer(name) ==
    Len(name) > 0 /\ name[Len(name)] \in {"transfer", "retransfer"}

\* suffix=None; `not suffix` holds for the empty suffix as well
NoSuffix == ""

\* utils.py 233-237
BcsNodeName(bcs_node, suffix) ==
    IF suffix # NoSuffix THEN bcs_node \o <<suffix>>
    ELSE IF EndsWithTransfer(bcs_node) THEN SubSeq(bcs_node, 1, Len(bcs_node) - 1)
    ELSE bcs_node

HostName(name, h) == UniqueName(name, Scene(h.nodes, <<>>))

WithNode(h, name, node) ==
    [h EXCEPT !.nodes = [n \in DOMAIN h.nodes \cup {name} |->
                            IF n = name THEN node ELSE h.nodes[n]]]

WithoutNodes(h, names) ==
    [h EXCEPT !.nodes = [n \in DOMAIN h.nodes \ names |-> h.nodes[n]]]

Transferred(err, mesh_, new_bcs, h) ==
    [error |-> err, mesh |-> mesh_, new_bcs |-> new_bcs, host |-> h]

\* the suffix is ignored: the name is the one given
transfer_bcs_node_KeepsName(bcs_node, mesh_, suffix, h) ==
    LET final == HostName(bcs_node, h)
    IN Transferred("", mesh_, final, WithNode(h, final, BcsNode(mesh_)))

\* utils.py 218-247.  cmds.polyCube and cmds.rename give the name asked for
\* when it is free and a numbered one otherwise; cmds.select raises when a
\* name is not in the scene.
transfer_bcs_node(bcs_node, mesh_, suffix, h) ==
    LET bcs_node_name == BcsNodeName(bcs_node, suffix)
        cube == HostName(bcs_node_name \o <<"geo">>, h)
        onto == IF mesh_ = None THEN cube ELSE mesh_
        h1 == IF mesh_ = None THEN WithNode(h, cube, MeshNode) ELSE h
    IN IF bcs_node \notin DOMAIN h1.nodes \/ onto \notin DOMAIN h1.nodes
       THEN Transferred("ValueError", onto, None, h1)
       ELSE LET h2 == IF h.keeps THEN h1 ELSE WithoutNodes(h1, {bcs_node})
                final == HostName(bcs_node_name, h2)
            IN Transferred("", onto, final, WithNode(h2, final, BcsNode(onto)))

\* utils.py 343-345
export_scene(objs, path, file_type, h) ==
    [h EXCEPT !.files = @ \cup {[path |-> path, type |-> file_type, objects |-> objs]}]

\* line 306: zip(bcs_nodes, meshes)
Zip(a, b) ==
    [i \in 1..(IF Len(a) < Len(b) THEN Len(a) ELSE Len(b)) |-> <<a[i], b[i]>>]

Exported(err, value, h) == [error |-> err, value |-> value, host |-> h]

\* lines 306-311, from pair i on
RECURSIVE TransferEach(_, _, _, _, _)
TransferEach(pairs, i, new_bcs_nodes, new_meshes, h) ==
    IF i > Len(pairs) THEN [error |-> "", bcs |-> new_bcs_nodes, meshes |-> new_meshes,
                            host |-> h]
    ELSE LET t == transfer_bcs_node(pairs[i][1], pairs[i][2], "transfer", h)
         IN IF t.error # ""
            THEN [error |-> t.error, bcs |-> new_bcs_nodes, meshes |-> new_meshes,
                  host |-> t.host]
            ELSE TransferEach(pairs, i + 1, Append(new_bcs_nodes, t.new_bcs),
                              Append(new_meshes, t.mesh), t.host)

\* lines 294-298; "" is the None of line 294
SceneType(path) ==
    IF IsSuffixOf(<<".", "m", "a">>, path) THEN "mayaAscii"
    ELSE IF IsSuffixOf(<<".", "m", "b">>, path) THEN "mayaBinary"
    ELSE ""

\* the scene type is looked at after the transfers
export_bcs_node_TransfersFirst(bcs_nodes, meshes_, path_, h) ==
    LET t == TransferEach(Zip(bcs_nodes, [i \in 1..Len(bcs_nodes) |-> None]), 1,
                          <<>>, <<>>, h)
    IN Exported(t.error, None, [t.host EXCEPT !.warnings = @ + 1])

\* build.py 267-315
export_bcs_node(bcs_nodes, meshes_, path_, h) ==
    LET targets == IF meshes_ # None THEN meshes_
                   ELSE [i \in 1..Len(bcs_nodes) |-> None]
        path == IF path_ = None THEN DefaultPath ELSE path_
        scene_type == SceneType(path)
    IN IF scene_type = ""
       THEN Exported("", None, [h EXCEPT !.warnings = @ + 1])
       ELSE LET t == TransferEach(Zip(bcs_nodes, targets), 1, <<>>, <<>>, h)
            IN IF t.error # "" THEN Exported(t.error, None, t.host)
               ELSE Exported("", <<t.bcs, t.meshes, path>>,
                             export_scene(t.meshes, path, scene_type, t.host))

InitExport ==
    /\ NoReconcile
    /\ host \in BcsScenes
    /\ args \in [bcs_nodes : DistinctSeqs(BcsNodesOf(host), MaxBcs),
                 meshes : {None, <<CopyGeo>>},
                 path : PathPool]
    /\ result = <<>>
    /\ pc = "call"
    /\ error = ""
    /\ runs = 0

CallExportBcsNode ==
    /\ pc = "call"
    /\ LET r == export_bcs_node(args.bcs_nodes, args.meshes, args.path, host)
       IN /\ host' = r.host
          /\ error' = r.error
          /\ result' = Append(result, Called("export_bcs_node", args, r.value, r.error,
                                             host, r.host))
    /\ pc' = "exported"
    /\ UNCHANGED <<args, runs>>
    /\ UNCHANGED ReconcileVars

NextExport == CallExportBcsNode

SpecExport == InitExport /\ [][NextExport]_vars

\* direct calls of transfer_bcs_node, one after the other in one scene
InitTransfer ==
    /\ NoReconcile
    /\ host \in BcsScenes
    /\ args = <<>>
    /\ result = <<>>
    /\ pc = "call"
    /\ error = ""
    /\ runs = 0

Suffixes == {"transfer", NoSuffix}

CallTransferBcsNode ==
    /\ error = ""
    /\ runs < MaxCalls
    /\ \E bcs_node \in BcsNodesOf(host), mesh_ \in {None, CopyGeo}, suffix \in Suffixes :
          LET a == [bcs_node |-> bcs_node, mesh |-> mesh_, suffix |-> suffix]
              r == transfer_bcs_node(bcs_node, mesh_, suffix, host)
          IN /\ host' = r.host
             /\ error' = r.error
             /\ args' = a
             /\ result' = Append(result,
                                 Called("transfer_bcs_node", a,
                                        [mesh |-> r.mesh, new_bcs |-> r.new_bcs],
                                        r.error, host, r.host))
    /\ runs' = runs + 1
    /\ pc' = "transferred"
    /\ UNCHANGED ReconcileVars

NextTransfer == CallTransferBcsNode

SpecTransfer == InitTransfer /\ [][NextTransfer]_vars

(***************************************************************************)
(* C21.  A call of export_bcs_node with a path that ends in neither .ma    *)
(* nor .mb returns None without an exception, has shown one warning, and   *)
(* leaves the nodes of the scene and the exported files as they were: no   *)
(* BCS node transferred, no cube created, no file written.                 *)
(***************************************************************************)
BadPath(path) == path # None /\ SceneType(path) = ""

C21_BadPathChangesNothing ==
    \A i \in 1..Len(result) :
        (result[i].fn = "export_bcs_node" /\ BadPath(result[i].args.path)) =>
            /\ result[i].value = None
            /\ result[i].error = ""
            /\ result[i].after.warnings = result[i].before.warnings + 1
            /\ result[i].after.nodes = result[i].before.nodes
            /\ result[i].after.files = result[i].before.files

C21_Witness ==
    \E i \in 1..Len(result) :
        /\ result[i].fn = "export_bcs_node"
        /\ result[i].args.path = <<"a", ".", "t", "x", "t">>
        /\ Len(result[i].args.bcs_nodes) = 2
        /\ result[i].value = None
        /\ result[i].after.warnings = 1

(***************************************************************************)
(* C22 as stated.  Every call of transfer_bcs_node(n) with the default     *)
(* suffix yields a node named n_transfer; every call with suffix=None on a *)
(* node named m_transfer yields a node named m; every call with            *)
(* suffix=None on a name that does not end in "transfer" yields a node of  *)
(* that same name.                                                         *)
(***************************************************************************)
Transfers == {i \in 1..Len(result) :
                 result[i].fn = "transfer_bcs_node" /\ result[i].error = ""}

Front(name) == SubSeq(name, 1, Len(name) - 1)

IsTransferOf(name) == Len(name) > 1 /\ name[Len(name)] = "transfer"

C22_RoundTripAnyScene ==
    \A i \in Transfers :
        LET n == result[i].args.bcs_node
            suffix == result[i].args.suffix
            new_bcs == result[i].value.new_bcs
        IN /\ suffix = "transfer" => new_bcs = n \o <<"transfer">>
           /\ (suffix = NoSuffix /\ IsTransferOf(n)) => new_bcs = Front(n)
           /\ (suffix = NoSuffix /\ ~EndsWithTransfer(n)) => new_bcs = n

(***************************************************************************)
(* C22 amended.  The name transfer_bcs_node asks of the host is n_transfer *)
(* with the default suffix, m for suffix=None and a node named m_transfer, *)
(* and the given name for suffix=None and a name that does not end in      *)
(* "transfer".  The new node bears that name exactly when no node of the   *)
(* scene bears it at the moment of the rename; otherwise the host gives a  *)
(* numbered name.  The node transferred from bears the given name, so with *)
(* suffix=None and a name not ending in "transfer" the name is free only   *)
(* if the transfer has taken that node out of the scene.                   *)
(***************************************************************************)
FreeAtRename(call, name) ==
    \/ name \notin DOMAIN call.before.nodes
    \/ name = call.args.bcs_node /\ ~call.before.keeps

C22_RoundTripWhenNameFree ==
    \A i \in Transfers :
        LET n == result[i].args.bcs_node
            suffix == result[i].args.suffix
            new_bcs == result[i].value.new_bcs
        IN /\ suffix = "transfer" =>
                 (new_bcs = n \o <<"transfer">> <=> FreeAtRename(result[i], n \o <<"transfer">>))
           /\ (suffix = NoSuffix /\ IsTransferOf(n)) =>
                 (new_bcs = Front(n) <=> FreeAtRename(result[i], Front(n)))
           /\ (suffix = NoSuffix /\ ~EndsWithTransfer(n)) =>
                 (new_bcs = n <=> FreeAtRename(result[i], n))
           /\ new_bcs \in DOMAIN result[i].after.nodes

\* a node transferred with the default suffix and transferred back with
\* suffix=None bears its first name again
C22_Witness ==
    /\ Len(result) = 2
    /\ Transfers = {1, 2}
    /\ result[1].args.suffix = "transfer"
    /\ result[1].value.new_bcs = result[1].args.bcs_node \o <<"transfer">>
    /\ result[2].args.suffix = NoSuffix
    /\ result[2].args.bcs_node = result[1].value.new_bcs
    /\ result[2].value.new_bcs = result[1].args.bcs_node

(***************************************************************************)
(* Rivet entry points:                                                     *)
(*   build.update_teeth_tongue_follow_jaw  (src/build.py 712-827)          *)
(*   build.apply_tongue_crv_delta          (src/build.py 830-875)          *)
(*   build.update_rivet_edges              (src/build.py 878-922)          *)
(*   build.update_inside_mouth_setup       (src/build.py 1003-1013)        *)
(*                                                                         *)
(* The scene is the selection and the list of the edits made to it, each   *)
(* with its kind: a node created, deleted or re-parented, a value set, a   *)
(* connection made.                                                        *)
(***************************************************************************)
MaxEdges == 3    \* most items of an edges argument and of the selection

EdgeLists == {None} \cup DistinctSeqs(1..MaxEdges, MaxEdges)

RivetError == "Please select exactly 2 edges to create a rivet."

Edit(kind, what) == [kind |-> kind, what |-> what]

Edited(h, edits) == [h EXCEPT !.edits = @ \o edits]

Ran(err, h) == [error |-> err, host |-> h]

\* the check passes for two items and more
CheckEdges_AtLeastTwo(edges, h) ==
    LET given == IF edges = None THEN h.selection ELSE edges
    IN [error |-> IF Len(given) < 2 THEN RivetError ELSE "", edges |-> given]

\* lines 714-719, 880-885, 1004-1009: `not edges` holds for None and for
\* the empty list, cmds.ls of an empty selection gives [] and `[] or None`
\* is None; cmds.error raises
CheckEdges(edges, h) ==
    LET given == IF edges = None
                 THEN (IF h.selection # <<>> THEN h.selection ELSE None)
                 ELSE edges
    IN [error |-> IF given = None \/ Len(given) # 2 THEN RivetError ELSE "",
        edges |-> given]

\* lines 720-723, 886-889: for i in range(3)
RebuildTargets ==
    Flatten([i \in 1..3 |-> << Edit("create", <<"target", i - 1>>),
                               Edit("delete", <<"target", i - 1>>) >>])

\* lines 830-875
apply_tongue_crv_delta(h) ==
    Edited(h, << Edit("set", <<"reset_ctrls">>) >>
              \o Flatten([i \in 1..3 |->
                    << Edit("create", <<"target", i - 1>>),
                       Edit("set", <<"jaw_pos", i - 1>>),
                       Edit("create", <<"tmp_delta", i - 1>>),
                       Edit("delete", <<"history", i - 1>>),
                       Edit("delete", <<"tmp_delta", i - 1>>),
                       Edit("delete", <<"target", i - 1>>) >>])
              \o << Edit("set", <<"reset_ctrls">>) >>)

\* lines 712-827
update_teeth_tongue_follow_jaw(edges, h) ==
    LET c == CheckEdges(edges, h)
    IN IF c.error # "" THEN Ran(c.error, h)
       ELSE Ran("", apply_tongue_crv_delta(
                Edited(h, RebuildTargets
                          \o << Edit("set", <<"reset_ctrls">>),
                                Edit("create", <<"tongue_crv_ref">>),
                                Edit("create", <<"crv_drive_tmp">>) >>
                          \o Flatten([i \in 1..3 |->
                                << Edit("create", <<"target", i - 1>>),
                                   Edit("create", <<"target_tmp", i - 1>>),
                                   Edit("delete", <<"history", i - 1>>),
                                   Edit("delete", <<"target", i - 1>>) >>])
                          \o << Edit("create", <<"rivet", c.edges>>),
                                Edit("create", <<"rivet_driver">>),
                                Edit("create", <<"rivet_driver_mouth_dmx">>),
                                Edit("connect", <<"dmx">>),
                                Edit("create", <<"tongue_jawHooktranslate_sum">>),
                                Edit("create", <<"tongue_jawHookrotate_sum">>) >>)))

\* lines 878-922
update_rivet_edges(edges, h) ==
    LET c == CheckEdges(edges, h)
    IN IF c.error # "" THEN Ran(c.error, h)
       ELSE Ran("", apply_tongue_crv_delta(
                Edited(h, RebuildTargets
                          \o << Edit("set", <<"reset_ctrls">>),
                                Edit("parent", <<"driver", "world">>),
                                Edit("set", <<"rivet", c.edges>>),
                                Edit("parent", <<"driver", "rivet">>),
                                Edit("set", <<"pma">>) >>)))

\* lines 925-967 and 970-1000, as edits
TongueAndTeeth(h) ==
    Edited(h, << Edit("create", <<"ik_ctrl_dmx">>), Edit("create", <<"ik_ctrl_mmx">>),
                 Edit("connect", <<"scale">>),
                 Edit("create", <<"lower_Teeth_bendX">>), Edit("parent", <<"handle", "misc">>),
                 Edit("create", <<"upper_Teeth_bendX">>), Edit("parent", <<"handle", "misc">>) >>)

\* lines 1003-1013
update_inside_mouth_setup(edges, h) ==
    LET c == CheckEdges(edges, h)
    IN IF c.error # "" THEN Ran(c.error, h)
       ELSE LET r == update_teeth_tongue_follow_jaw(c.edges, h)
            IN IF r.error # "" THEN r ELSE Ran("", TongueAndTeeth(r.host))

InitRivet ==
    /\ NoReconcile
    /\ host \in [selection : EdgeLists, edits : {<<>>}]
    /\ args \in [edges : EdgeLists]
    /\ result = <<>>
    /\ pc = "call"
    /\ error = ""
    /\ runs = 0

Returned(fn, r) ==
    /\ host' = r.host
    /\ error' = r.error
    /\ result' = Append(result, Called(fn, args, None, r.error, host, r.host))
    /\ pc' = "returned"
    /\ UNCHANGED <<args, runs>>
    /\ UNCHANGED ReconcileVars

CallUpdateTeethTongueFollowJaw ==
    /\ pc = "call"
    /\ Returned("update_teeth_tongue_follow_jaw",
                update_teeth_tongue_follow_jaw(args.edges, host))

CallUpdateRivetEdges ==
    /\ pc = "call"
    /\ Returned("update_rivet_edges", update_rivet_edges(args.edges, host))

CallUpdateInsideMouthSetup ==
    /\ pc = "call"
    /\ Returned("update_inside_mouth_setup", update_inside_mouth_setup(args.edges, host))

NextRivet ==
    \/ CallUpdateTeethTongueFollowJaw
    \/ CallUpdateRivetEdges
    \/ CallUpdateInsideMouthSetup

SpecRivet == InitRivet /\ [][NextRivet]_vars

(***************************************************************************)
(* C23.  Each of the three entry points raises the "exactly 2 edges" error *)
(* exactly when the edges it is given, or the selection when it is given   *)
(* none, do not hold exactly two items, and a call that raises it has made *)
(* no edit to the scene: nothing created, deleted or re-parented.          *)
(***************************************************************************)
EdgesUsed(call) ==
    IF call.args.edges # None THEN call.args.edges ELSE call.before.selection

C23_TwoEdgesOrNothing ==
    \A i \in 1..Len(result) :
        /\ result[i].error = RivetError <=> Len(EdgesUsed(result[i])) # 2
        /\ result[i].error = RivetError => result[i].after = result[i].before
        /\ result[i].error = "" =>
              \E k \in 1..Len(result[i].after.edits) :
                  result[i].after.edits[k].what = <<"rivet", EdgesUsed(result[i])>>

C23_Witness ==
    \E i \in 1..Len(result) :
        /\ result[i].fn = "update_inside_mouth_setup"
        /\ result[i].args.edges = None
        /\ Len(result[i].before.selection) = 3
        /\ result[i].error = RivetError
        /\ result[i].after.edits = <<>>

(***************************************************************************)
(* Template connections: build.connect_template_scenes (src/build.py       *)
(* 199-264), called with bcs_template=False.                               *)
(*                                                                         *)
(* A plug "node.attr" is a record of the tokens of the node name and the   *)
(* parts of the attribute name, so that "input{}" is <<"input", "{}">>.    *)
(* A table of connections_data is the sequence of its items in the order   *)
(* of the dict; the scene is the set of its nodes and, for every           *)
(* destination plug that has one, the plug connected into it.              *)
(***************************************************************************)
MaxDest == 2      \* most destinations of a template's table
MaxAbsent == 1    \* most nodes of the tables that are not in the scene

Plug(node, attr) == [node |-> node, attr |-> attr]

Entry(destination_raw, plugs_raw) == [destination |-> destination_raw, plugs |-> plugs_raw]

Wire(src_plug, dest_attr) == [src |-> src_plug, attr |-> dest_attr]

DestPool ==
    { Entry(<<"{}", "lid", "jnt">>,
            << Wire(Plug(<<"{}", "lid", "ctrl">>, <<"translate">>), <<"translate">>) >>),
      Entry(<<"M", "jaw", "jnt">>,
            << Wire(Plug(<<"{}", "cheek", "ctrl">>, <<"out">>), <<"input", "{}">>),
               Wire(Plug(<<"M", "jaw", "ctrl">>, <<"rotate">>), <<"rotate">>) >>),
      Entry(<<"L", "brow", "jnt">>,
            << Wire(Plug(<<"{}", "brow", "ctrl">>, <<"scale">>), <<"scale">>),
               Wire(Plug(<<"R", "brow", "ctrl">>, <<"out">>), <<"from", "{}">>) >>),
      Entry(<<"tongue", "jnt">>,
            << Wire(Plug(<<"{}", "tongue", "ctrl">>, <<"rotate">>), <<"rotate">>) >>) }

TemplateNames == {"cluster", "joint"}

Sides == <<"L", "R">>

NodesOfEntry(e) ==
    {FormatSide(e.destination, s) : s \in Range(Sides)}
    \cup {FormatSide(e.plugs[k].src.node, s) : k \in 1..Len(e.plugs), s \in Range(Sides)}

TableNodes == UNION {NodesOfEntry(e) : e \in DestPool}

\* `x in "LR"`: x is a substring of "LR"
InLR(prefix) == prefix \in {"", "L", "R", "LR"}

\* src_plug.format(side): the whole plug string is formatted
FormatPlug(plug, side) == Plug(FormatSide(plug.node, side), FormatSide(plug.attr, side))

\* lines 228-230
Destinations(destination_raw) ==
    IF StartsWith(destination_raw, "{}")
    THEN [i \in 1..2 |-> FormatSide(destination_raw, Sides[i])]
    ELSE <<destination_raw>>

\* every side-templated source is taken from both sides
SrcPlugs_BothSides(src_plug, dest_prefix) ==
    IF StartsWith(src_plug.node, "{}")
    THEN [i \in 1..2 |-> FormatPlug(src_plug, Sides[i])]
    ELSE <<src_plug>>

\* lines 236-240
SrcPlugs(src_plug, dest_prefix) ==
    IF StartsWith(src_plug.node, "{}") /\ dest_prefix = "M"
    THEN [i \in 1..2 |-> FormatPlug(src_plug, Sides[i])]
    ELSE IF StartsWith(src_plug.node, "{}") /\ InLR(dest_prefix)
    THEN <<FormatPlug(src_plug, dest_prefix)>>
    ELSE <<src_plug>>

\* lines 245-247
SideDestAttr(dest_attr, src_prefix) ==
    IF Len(dest_attr) > 0 /\ dest_attr[Len(dest_attr)] = "{}"
    THEN FormatSide(dest_attr, src_prefix)
    ELSE dest_attr

Pair(side_src_plug, side_dest_plug) == [src |-> side_src_plug, dest |-> side_dest_plug]

\* lines 235-249 for one destination: the pairs in the order of the loops
PairsOfDestination(destination, plugs_raw) ==
    Flatten([k \in 1..Len(plugs_raw) |->
        LET src_plugs == SrcPlugs(plugs_raw[k].src, SplitFirst(destination))
        IN [j \in 1..Len(src_plugs) |->
               Pair(src_plugs[j],
                    Plug(destination,
                         SideDestAttr(plugs_raw[k].attr, SplitFirst(src_plugs[j].node))))]])

\* lines 227-249 for one template
PairsOfTable(table) ==
    Flatten([e \in 1..Len(table) |->
        LET destinations == Destinations(table[e].destination)
        IN Flatten([d \in 1..Len(destinations) |->
               PairsOfDestination(destinations[d], table[e].plugs)])])

\* cmds.connectAttr raises RuntimeError when a plug is not in the scene
Rejects(h, pair) == pair.src.node \notin h.nodes \/ pair.dest.node \notin h.nodes

\* cmds.connectAttr(src, dest, force=True): the destination plug takes the
\* source in place of the one it had
ConnectAttr(h, pair) ==
    [h EXCEPT !.inputs = [p \in DOMAIN h.inputs \cup {pair.dest} |->
                             IF p = pair.dest THEN pair.src ELSE h.inputs[p]]]

Connected(attempts, missings, h) == [attempts |-> attempts, missings |-> missings, host |-> h]

\* the first rejected pair ends the template
RECURSIVE ConnectEach_StopsAtFirst(_, _, _, _)
ConnectEach_StopsAtFirst(pairs, i, missings, h) ==
    IF i > Len(pairs) THEN Connected(pairs, missings, h)
    ELSE IF Rejects(h, pairs[i]) THEN Connected(SubSeq(pairs, 1, i), Append(missings, pairs[i]), h)
    ELSE ConnectEach_StopsAtFirst(pairs, i + 1, missings, ConnectAttr(h, pairs[i]))

\* lines 250-259, from pair i on
RECURSIVE ConnectEach(_, _, _, _)
ConnectEach(pairs, i, missings, h) ==
    IF i > Len(pairs) THEN Connected(pairs, missings, h)
    ELSE IF Rejects(h, pairs[i]) THEN ConnectEach(pairs, i + 1, Append(missings, pairs[i]), h)
    ELSE ConnectEach(pairs, i + 1, missings, ConnectAttr(h, pairs[i]))

ConnectScenes ==
    { [nodes |-> TableNodes \ absent, inputs |-> <<>>] :
        absent \in {a \in SUBSET TableNodes : Cardinality(a) <= MaxAbsent} }

InitConnect ==
    /\ NoReconcile
    /\ host \in ConnectScenes
    /\ args \in [templates : DistinctSeqs(TemplateNames, 2),
                 connections_data : [cluster : DistinctSeqs(DestPool, MaxDest),
                                     joint : DistinctSeqs(DestPool, 1)]]
    /\ result = <<>>
    /\ pc = "call"
    /\ error = ""
    /\ runs = 0

\* lines 223-264 for the next template
ConnectTemplate ==
    /\ pc = "call"
    /\ Len(result) < Len(args.templates)
    /\ LET template == args.templates[Len(result) + 1]
           r == ConnectEach(PairsOfTable(args.connections_data[template]), 1, <<>>, host)
       IN /\ host' = r.host
          /\ result' = Append(result, [template |-> template, attempts |-> r.attempts,
                                       missings |-> r.missings, before |-> host,
                                       after |-> r.host])
          /\ pc' = IF Len(result) + 1 = Len(args.templates) THEN "done" ELSE "call"
    /\ UNCHANGED <<args, error, runs>>
    /\ UNCHANGED ReconcileVars

NextConnect == ConnectTemplate

SpecConnect == InitConnect /\ [][NextConnect]_vars

(***************************************************************************)
(* C24.  The templates are taken one after the other, in the order given,  *)
(* whatever the host rejected before, and the call ends having taken them  *)
(* all.  For each template every pair its table derives is attempted       *)
(* exactly once and nothing else is; the missing list holds exactly the    *)
(* attempted pairs the host rejected, once each and in the order of the    *)
(* attempts; every pair the host accepted is connected unless a later pair *)
(* of the same destination plug took its place.                            *)
(***************************************************************************)
ExpectedSources(src_plug, destination) ==
    IF src_plug.node[1] # "{}" THEN {src_plug}
    ELSE IF destination[1] = "M" THEN {FormatPlug(src_plug, "L"), FormatPlug(src_plug, "R")}
    ELSE IF destination[1] \in {"L", "R"} THEN {FormatPlug(src_plug, destination[1])}
    ELSE {src_plug}

ExpectedAttr(dest_attr, src) ==
    [i \in 1..Len(dest_attr) |->
        IF i = Len(dest_attr) /\ dest_attr[i] = "{}" THEN src.node[1] ELSE dest_attr[i]]

ExpectedPairs(table) ==
    UNION { UNION { UNION { { Pair(src, Plug(destination,
                                             ExpectedAttr(table[e].plugs[k].attr, src))) :
                              src \in ExpectedSources(table[e].plugs[k].src, destination) } :
                            k \in 1..Len(table[e].plugs) } :
                    destination \in (IF table[e].destination[1] = "{}"
                                     THEN {FormatSide(table[e].destination, "L"),
                                           FormatSide(table[e].destination, "R")}
                                     ELSE {table[e].destination}) } :
            e \in 1..Len(table) }


C24_FailuresIsolated ==
    /\ \A i \in 1..Len(result) : result[i].template = args.templates[i]
    /\ pc = "done" <=> Len(result) = Len(args.templates)
    /\ \A i \in 1..Len(result) :
          LET r == result[i]
              table == args.connections_data[r.template]
          IN /\ \A p \in ExpectedPairs(table) :
                    Cardinality({k \in 1..Len(r.attempts) : r.attempts[k] = p}) = 1
             /\ Range(r.attempts) \subseteq ExpectedPairs(table)
             /\ Range(r.missings) = {p \in Range(r.attempts) : Rejects(r.before, p)}
             /\ Len(r.missings) = Cardinality(Range(r.missings))
             /\ \A a, b \in 1..Len(r.missings) :
                    a < b => \E k, l \in 1..Len(r.attempts) :
                                k < l /\ r.attempts[k] = r.missings[a]
                                      /\ r.attempts[l] = r.missings[b]
             /\ \A k \in 1..Len(r.attempts) :
                    (~Rejects(r.before, r.attempts[k])
                     /\ \A l \in (k + 1)..Len(r.attempts) :
                           Rejects(r.before, r.attempts[l])
                           \/ r.attempts[l].dest # r.attempts[k].dest) =>
                        /\ r.attempts[k].dest \in DOMAIN r.after.inputs
                        /\ r.after.inputs[r.attempts[k].dest] = r.attempts[k].src

\* a template with a rejected pair followed by accepted pairs, and a second
\* template taken after it
C24_Witness ==
    /\ pc = "done"
    /\ Len(result) = 2
    /\ \E k \in 1..Len(result[1].attempts) :
          /\ Rejects(result[1].before, result[1].attempts[k])
          /\ \E l \in (k + 1)..Len(result[1].attempts) :
                ~Rejects(result[1].before, result[1].attempts[l])
    /\ Len(result[1].missings) >= 1
    /\ Len(result[2].attempts) > Len(result[2].missings)

(***************************************************************************)
(* C25.  For a side-templated source plug of a table, a destination whose  *)
(* prefix is L or R is paired with the source of its own side once and     *)
(* never with the source of the other side; a destination whose prefix is  *)
(* M is paired once with the L source and once with the R source.  A       *)
(* destination attribute ending in "{}" is completed with the prefix of    *)
(* the source plug of the pair, so that the two sources of an M            *)
(* destination go to two plugs, and both are connected when the host       *)
(* accepts them.                                                           *)
(***************************************************************************)
OtherSide(side) == IF side = "L" THEN "R" ELSE "L"

TemplatedWires(table) ==
    {w \in UNION {{<<table[e].destination, table[e].plugs[k]>> : k \in 1..Len(table[e].plugs)} :
                     e \in 1..Len(table)} : w[2].src.node[1] = "{}"}

SuffixedWires(table) ==
    {w \in UNION {{<<table[e].destination, table[e].plugs[k]>> : k \in 1..Len(table[e].plugs)} :
                     e \in 1..Len(table)} : w[2].attr[Len(w[2].attr)] = "{}"}

SidesOf(destination_raw) ==
    IF destination_raw[1] = "{}"
    THEN {FormatSide(destination_raw, "L"), FormatSide(destination_raw, "R")}
    ELSE {destination_raw}

C25_SidePairing ==
    \A i \in 1..Len(result) :
        LET r == result[i]
            table == args.connections_data[r.template]
            From(d, src) == {a \in 1..Len(r.attempts) :
                                r.attempts[a].dest.node = d /\ r.attempts[a].src = src}
        IN /\ \A w \in TemplatedWires(table) : \A d \in SidesOf(w[1]) :
                 /\ d[1] \in {"L", "R"} =>
                       /\ Cardinality(From(d, FormatPlug(w[2].src, d[1]))) = 1
                       /\ From(d, FormatPlug(w[2].src, OtherSide(d[1]))) = {}
                 /\ d[1] = "M" =>
                       /\ Cardinality(From(d, FormatPlug(w[2].src, "L"))) = 1
                       /\ Cardinality(From(d, FormatPlug(w[2].src, "R"))) = 1
           /\ \A w \in SuffixedWires(table) : \A d \in SidesOf(w[1]) :
                 \A a \in 1..Len(r.attempts) :
                    (r.attempts[a].dest.node = d
                     /\ r.attempts[a].src \in {w[2].src, FormatPlug(w[2].src, "L"),
                                               FormatPlug(w[2].src, "R")}
                     /\ r.attempts[a].src.node[1] \in {"L", "R", "M"}) =>
                        /\ r.attempts[a].dest.attr =
                              SubSeq(w[2].attr, 1, Len(w[2].attr) - 1)
                                 \o <<r.attempts[a].src.node[1]>>
                        /\ ~Rejects(r.before, r.attempts[a]) =>
                              /\ r.attempts[a].dest \in DOMAIN r.after.inputs
                              /\ r.after.inputs[r.attempts[a].dest] = r.attempts[a].src

\* an M destination connected from both sides into the two completed plugs,
\* and an L destination paired with the L source
C25_Witness ==
    \E i \in 1..Len(result) :
        /\ Plug(<<"M", "jaw", "jnt">>, <<"input", "L">>) \in DOMAIN result[i].after.inputs
        /\ Plug(<<"M", "jaw", "jnt">>, <<"input", "R">>) \in DOMAIN result[i].after.inputs
        /\ result[i].after.inputs[Plug(<<"M", "jaw", "jnt">>, <<"input", "R">>)]
              = Plug(<<"R", "cheek", "ctrl">>, <<"out">>)
        /\ Plug(<<"L", "brow", "jnt">>, <<"scale">>) \in DOMAIN result[i].after.inputs
        /\ result[i].after.inputs[Plug(<<"L", "brow", "jnt">>, <<"scale">>)]
              = Plug(<<"L", "brow", "ctrl">>, <<"scale">>)
        /\ Plug(<<"L", "brow", "jnt">>, <<"from", "R">>) \in DOMAIN result[i].after.inputs

(***************************************************************************)
(* A call of create_all_deformers after a call that an exception ended:    *)
(* the build script is run again on the scene the failed call left.  args  *)
(* keeps the graph the failed call started from.                           *)
(***************************************************************************)
InitRetry == InitFrom(DriftConfigs)

Rerun ==
    /\ pc = "aborted"
    /\ runs < MaxRuns
    /\ runs' = runs + 1
    /\ prev' = "aborted"
    /\ args' = [dnodes |-> dnodes0, chain |-> chain0]
    /\ pc' = LoopHeaders(<<>>, <<>>, <<>>, 0)
    /\ ti' = 0
    /\ objects' = <<>>
    /\ meshes' = <<>>
    /\ mesh' = <<>>
    /\ missing' = <<>>
    /\ raw_missing' = <<>>
    /\ deformer_type' = "unbound"
    /\ error' = ""
    /\ chain0' = chain
    /\ dnodes0' = dnodes
    /\ expanded' = <<>>
    /\ report' = <<>>
    /\ created' = <<>>
    /\ UNCHANGED <<deformers_data, dnodes, chain, removed, renamed, host, result>>

NextRetry == Start \/ Rerun \/ NextItem \/ NextObject \/ NextMesh \/ CreateMissing

SpecRetry == InitRetry /\ [][NextRetry]_vars

\* the outcome of create_all_deformers, or of a part of it
Pass(err, dn, ch, type) == [error |-> err, dnodes |-> dn, chain |-> ch, type |-> type]

\* build.py 172-196 with no host failure: the loop over zip(raw_missing, missing)
RECURSIVE CreateEach(_, _, _, _, _, _, _)
CreateEach(raw, miss, deformers, mesh_, type, dn, ch) ==
    IF miss = <<>> THEN Pass("", dn, ch, type)
    ELSE LET r == LoopBody(Head(raw), Head(miss), deformers, mesh_, type, dn, ch, "none")
         IN IF r.error # "" THEN Pass(r.error, r.dnodes, r.chain, type)
            ELSE CreateEach(Tail(raw), Tail(miss), deformers, mesh_,
                            LoopType(Head(miss), type), r.dnodes, r.chain)

\* build.py 167-196: the loop over the meshes of an object
RECURSIVE EachMesh(_, _, _, _, _)
EachMesh(meshes_, deformers, type, dn, ch) ==
    IF meshes_ = <<>> THEN Pass("", dn, ch, type)
    ELSE LET c == copy_deformers(Head(meshes_), Keys(deformers), dn, ch)
             r == CreateEach(c.raw_missing, c.missing, deformers, Head(meshes_), type,
                             dn, c.chain)
         IN IF r.error # "" THEN r
            ELSE EachMesh(Tail(meshes_), deformers, r.type, r.dnodes, r.chain)

\* build.py 165-196: the loop over the objects of an item
RECURSIVE EachObject(_, _, _, _, _)
EachObject(objects_, deformers, type, dn, ch) ==
    IF objects_ = <<>> THEN Pass("", dn, ch, type)
    ELSE IF Head(objects_) \notin SceneNodes THEN Pass("ValueError", dn, ch, type)
    ELSE LET r == EachMesh(MeshesOfObject(Head(objects_)), deformers, type, dn, ch)
         IN IF r.error # "" THEN r
            ELSE EachObject(Tail(objects_), deformers, r.type, r.dnodes, r.chain)

\* build.py 156-196: the loop over deformers_data, from item i on
RECURSIVE EachItem(_, _, _, _, _)
EachItem(data, i, type, dn, ch) ==
    IF i > Len(data) THEN Pass("", dn, ch, type)
    ELSE LET r == EachObject(ExpandNode(data[i].node), data[i].deformers, type, dn, ch)
         IN IF r.error # "" THEN r ELSE EachItem(data, i + 1, r.type, r.dnodes, r.chain)

\* create_all_deformers(data) on a graph, no host command failing
FailureFreePass(data, dn, ch) == EachItem(data, 1, "unbound", dn, ch)

\* a call of the model that returned is the failure-free pass
PassAgrees ==
    pc = "done" =>
        LET p == FailureFreePass(deformers_data, dnodes0, chain0)
        IN p.error = "" /\ p.dnodes = dnodes /\ p.chain = chain

(***************************************************************************)
(* C26.  Convergence after a failed pass: when a call that an exception    *)
(* ended is followed by a call that returns, the chain of every mesh and   *)
(* the deformer nodes with their parameters (joints, envelope, source,     *)
(* settings made) are those a single failure-free call yields from the     *)
(* graph the failed call started from.                                     *)
(***************************************************************************)
C26_ConvergesAfterFailure ==
    (pc = "done" /\ prev = "aborted") =>
        LET p == FailureFreePass(deformers_data, args.dnodes, args.chain)
        IN p.error = "" => (p.chain = chain /\ p.dnodes = dnodes)

(***************************************************************************)
(* C27.  rename_scene is idempotent: a call of rename_scene that follows a *)
(* call that returned issues no rename; renamed, the renames of the call   *)
(* in progress, stays empty.                                               *)
(***************************************************************************)
C27_SecondCallRenamesNothing ==
    (runs = 2 /\ prev = "done") => renamed = <<>>

(***************************************************************************)
(* build.import_data (src/build.py 613-671): the attribute values of the   *)
(* controllers, then those of the transforms and constraints, are set from *)
(* the two JSON files.  The scene is its nodes and, for every attribute,   *)
(* whether it exists, is locked, has an incoming connection (cmds.setAttr  *)
(* of its value then raises), and its value.                               *)
(***************************************************************************)
CtrlNode == <<"M", "jaw", "main", "ctrl">>
TransformNode == <<"M", "jaw", "main", "jnt">>

ImportAttrs == <<"translateX", "rotateY">>

AttrOf(node, attr) == [node |-> node, attr |-> attr]

AttrStates ==
    [exists : {TRUE}, locked : BOOLEAN, connected : BOOLEAN, value : {0}]
    \cup [exists : {FALSE}, locked : {FALSE}, connected : {FALSE}, value : {0}]

ImportPlugs == {AttrOf(n, ImportAttrs[i]) : n \in {CtrlNode, TransformNode},
                                            i \in 1..Len(ImportAttrs)}

\* the data export_data wrote: node -> attr -> value, as ordered items
DataOf(node) ==
    << [node |-> node,
        attrs |-> [i \in 1..Len(ImportAttrs) |-> [attr |-> ImportAttrs[i], value |-> 1]]] >>

SetLock(h, p, lock) == [h EXCEPT !.attrs[p].locked = lock]

\* lines 631-644 (and 656-669): the body of the loop over attrs.items();
\* the exception of a host command is caught at line 641 (666)
ImportAttr(h, node, attr, value) ==
    LET p == AttrOf(node, attr)
    IN IF ~h.attrs[p].exists THEN h
       ELSE LET is_locked == h.attrs[p].locked
                h1 == IF is_locked THEN SetLock(h, p, FALSE) ELSE h
            IN IF h1.attrs[p].connected THEN h1
               ELSE LET h2 == [h1 EXCEPT !.attrs[p].value = value]
                    IN IF is_locked THEN SetLock(h2, p, TRUE) ELSE h2

\* lines 630-644: for attr, value in attrs.items(), from item j on
RECURSIVE ImportAttrsOf(_, _, _, _)
ImportAttrsOf(h, node, attrs, j) ==
    IF j > Len(attrs) THEN h
    ELSE ImportAttrsOf(ImportAttr(h, node, attrs[j].attr, attrs[j].value), node, attrs, j + 1)

\* lines 628-646: for ctrl, attrs in ctrl_data.items(), from item i on
RECURSIVE ImportNodes(_, _, _)
ImportNodes(h, data, i) ==
    IF i > Len(data) THEN h
    ELSE IF data[i].node \notin h.nodes THEN ImportNodes(h, data, i + 1)
    ELSE ImportNodes(ImportAttrsOf(h, data[i].node, data[i].attrs, 1), data, i + 1)

\* the attributes a section sets or tries to set
Touched(h, data) ==
    {p \in ImportPlugs :
        /\ p.node \in h.nodes
        /\ h.attrs[p].exists
        /\ \E i \in 1..Len(data) :
              data[i].node = p.node
              /\ \E j \in 1..Len(data[i].attrs) : data[i].attrs[j].attr = p.attr}

InitImport ==
    /\ NoReconcile
    /\ host \in [nodes : SUBSET {CtrlNode, TransformNode}, attrs : [ImportPlugs -> AttrStates]]
    /\ args \in [import_ctrl : BOOLEAN, import_transforms : BOOLEAN,
                 ctrl_data : {DataOf(CtrlNode)},
                 transforms_data : {DataOf(TransformNode)}]
    /\ result = <<>>
    /\ pc = "call"
    /\ error = ""
    /\ runs = 0

Imported(section, data, h) ==
    /\ host' = h
    /\ result' = Append(result, [section |-> section, touched |-> Touched(host, data),
                                 before |-> host, after |-> h])
    /\ UNCHANGED <<args, error, runs>>
    /\ UNCHANGED ReconcileVars

\* lines 624-646
ImportControllers ==
    /\ pc = "call"
    /\ pc' = "transforms"
    /\ IF args.import_ctrl
       THEN Imported("controllers", args.ctrl_data, ImportNodes(host, args.ctrl_data, 1))
       ELSE Imported("controllers", <<>>, host)

\* lines 649-671
ImportTransforms ==
    /\ pc = "transforms"
    /\ pc' = "done"
    /\ IF args.import_transforms
       THEN Imported("transforms", args.transforms_data,
                     ImportNodes(host, args.transforms_data, 1))
       ELSE Imported("transforms", <<>>, host)

NextImport == ImportControllers \/ ImportTransforms

SpecImport == InitImport /\ [][NextImport]_vars

(***************************************************************************)
(* C28.  import_data preserves the lock state: every attribute a section   *)
(* of import_data sets or tries to set is locked after the section exactly *)
(* when it was locked before it, also when the value could not be set.     *)
(***************************************************************************)
C28_LockStatePreserved ==
    \A i \in 1..Len(result) : \A p \in result[i].touched :
        result[i].after.attrs[p].locked = result[i].before.attrs[p].locked

(***************************************************************************)
(* utils.mirror_controllers (src/utils.py 673-716).  cmds.ls("L_*_ctrl")   *)
(* is a list of distinct names in the order of the scene; the first loop   *)
(* removes names from the very list it runs over.                          *)
(***************************************************************************)
MaxCtrls == 3

LeftCtrlPool ==
    { <<"L", "brow", "ctrl">>, <<"L", "cheek", "ctrl">>, <<"L", "eye", "ctrl">>,
      <<"L", "eye", "cluster", "ctrl">>, <<"L", "lipTwk", "ctrl">> }

\* obj.replace("L_", "R_") of a name of the pool
RSideOf(obj) == [obj EXCEPT ![1] = "R"]

\* "eye_" in obj and "cluster_" not in obj
IsEyeCtrl(obj) ==
    /\ \E i \in 1..(Len(obj) - 1) : obj[i] = "eye"
    /\ ~ \E i \in 1..(Len(obj) - 1) : obj[i] = "cluster"

\* "Twk" in obj or "twk" in obj
IsTweak(obj) == \E i \in 1..Len(obj) : obj[i] \in {"lipTwk", "liptwk"}

DoubleOffsetName(obj) == [obj EXCEPT ![Len(obj)] = "doubleOffset"]
PointConstraintName(obj) == [obj EXCEPT ![Len(obj)] = "pointConstraint1"]

\* list.remove(obj): the first occurrence is taken out
RECURSIVE ListRemove(_, _)
ListRemove(list, obj) ==
    IF list = <<>> THEN <<>>
    ELSE IF Head(list) = obj THEN Tail(list)
    ELSE <<Head(list)>> \o ListRemove(Tail(list), obj)

Mirroring(list) ==
    [controllers |-> list, examined |-> <<>>, double_offsets |-> <<>>,
     point_constraints |-> <<>>]

\* lines 679-703: the body of the first loop for one obj
Examine(h, m, obj) ==
    LET seen == [m EXCEPT !.examined = Append(@, obj)]
    IN IF RSideOf(obj) \notin h.nodes
         THEN [seen EXCEPT !.controllers = ListRemove(@, obj)]
       ELSE IF IsEyeCtrl(obj)
         THEN [seen EXCEPT !.controllers = ListRemove(@, obj)]
       ELSE IF IsTweak(obj) THEN seen
       ELSE IF obj \notin h.offsets THEN seen
       ELSE LET collected == [seen EXCEPT !.double_offsets = Append(@, DoubleOffsetName(obj))]
            IN IF obj \in h.constrained
               THEN [collected EXCEPT !.point_constraints = Append(@, PointConstraintName(obj))]
               ELSE collected

\* line 678: for obj in controllers, the list iterator standing at index i
\* (0-based) of the list as it is now
RECURSIVE ForEachController(_, _, _)
ForEachController(h, m, i) ==
    IF i >= Len(m.controllers) THEN m
    ELSE ForEachController(h, Examine(h, m, m.controllers[i + 1]), i + 1)

\* mirror_cvs (lines 719-729) of the CVs of obj: a CV is written when the
\* CV of the other side exists
CvsMirrored(h, list) ==
    {list[i] : i \in {j \in 1..Len(list) : RSideOf(list[j]) \in h.nodes}}

mirror_controllers(h) ==
    LET m == ForEachController(h, Mirroring(h.ls), 0)
    IN [examined |-> m.examined,
        controllers |-> m.controllers,
        double_offsets |-> m.double_offsets,
        point_constraints |-> m.point_constraints,
        cvs_read |-> Range(m.controllers),
        cvs_mirrored |-> CvsMirrored(h, m.controllers)]

MirrorScenes ==
    UNION { [ls : {l}, nodes : SUBSET {RSideOf(o) : o \in Range(l)},
             offsets : SUBSET Range(l), constrained : SUBSET Range(l)]
            : l \in DistinctSeqs(LeftCtrlPool, MaxCtrls) }

InitMirror ==
    /\ NoReconcile
    /\ host \in {h \in MirrorScenes : h.constrained \subseteq h.offsets}
    /\ args = <<>>
    /\ result = <<>>
    /\ pc = "call"
    /\ error = ""
    /\ runs = 0

CallMirrorControllers ==
    /\ pc = "call"
    /\ pc' = "done"
    /\ result' = <<Called("mirror_controllers", <<>>, mirror_controllers(host), "", host, host)>>
    /\ UNCHANGED <<host, args, error, runs>>
    /\ UNCHANGED ReconcileVars

NextMirror == CallMirrorControllers

SpecMirror == InitMirror /\ [][NextMirror]_vars

(***************************************************************************)
(* C29.  mirror_controllers examines every L_*_ctrl controller exactly     *)
(* once: the controllers examined are the listed ones in order; one        *)
(* without R_ counterpart, and an eye controller that is no cluster, is    *)
(* not among those whose CVs are mirrored; every other one has its CVs     *)
(* mirrored and, unless it is a tweak or has no double offset, its double  *)
(* offset collected.                                                       *)
(***************************************************************************)
Excluded(h, obj) == RSideOf(obj) \notin h.nodes \/ IsEyeCtrl(obj)

C29_EveryControllerExaminedOnce ==
    \A k \in 1..Len(result) :
        LET h == result[k].before
            r == result[k].value
        IN /\ r.examined = h.ls
           /\ \A obj \in Range(h.ls) :
                 IF Excluded(h, obj)
                 THEN obj \notin r.cvs_read
                 ELSE /\ obj \in r.cvs_mirrored
                      /\ (~IsTweak(obj) /\ obj \in h.offsets)
                            => DoubleOffsetName(obj) \in Range(r.double_offsets)

(***************************************************************************)
(* build.scale_tongue_ikfk (src/build.py 925-967): the scale of every      *)
(* tongue joint is driven by one IK controller, the distinct joint numbers *)
(* being dealt out in blocks of round(len(numbers) / len(ik_ctrls)).       *)
(***************************************************************************)
MaxNumbers == 7
MaxIk == 4

NumberTokens == <<"01", "02", "03", "04", "05", "06", "07", "08", "09">>

TongueJnt(i) == <<"tongue", NumberTokens[i], "jnt">>
TongueBind(i) == <<"tongue", NumberTokens[i], "bind">>
IkCtrl(i) == <<"M", "tongue", "ik", NumberTokens[i], "ctrl">>

\* re.search(r"\_(\d+)\_", jnt).group(1): the first token of digits that
\* stands between two underscores
JointNumber(jnt) ==
    LET inner == {i \in 2..(Len(jnt) - 1) : jnt[i] \in Range(NumberTokens)}
    IN jnt[CHOOSE i \in inner : \A j \in inner : i <= j]

\* lines 932-938: the distinct numbers in the order they are first met
RECURSIVE DistinctNumbers(_, _, _)
DistinctNumbers(joints, i, numbers) ==
    IF i > Len(joints) THEN numbers
    ELSE LET number == JointNumber(joints[i])
         IN IF number \in Range(numbers)
            THEN DistinctNumbers(joints, i + 1, numbers)
            ELSE DistinctNumbers(joints, i + 1, Append(numbers, number))

\* round(n / k) of Python 3 for k > 0: halves go to the even neighbour
PyRound(n, k) ==
    LET q == n \div k
        r == n % k
    IN IF 2 * r < k THEN q
       ELSE IF 2 * r > k THEN q + 1
       ELSE IF q % 2 = 0 THEN q ELSE q + 1

\* numbers[start_idx:end_idx] with 0 <= start_idx and 0 <= end_idx
Slice(s, start_idx, end_idx) ==
    LET stop == IF end_idx < Len(s) THEN end_idx ELSE Len(s)
    IN IF start_idx >= stop THEN <<>>
       ELSE [i \in 1..(stop - start_idx) |-> s[start_idx + i]]

Min(a, b) == IF a <= b THEN a ELSE b

\* lines 944-946 and 955 for the controller of index i (0-based)
BlockOf(numbers, round_div, i) ==
    LET start_idx == i * round_div
        end_idx == Min(start_idx + round_div, Len(numbers))
    IN Slice(numbers, start_idx, end_idx)

\* lines 955-967: the connections made for one controller
ScaleConnections(joints, ctrl, block) ==
    {[src |-> ctrl \o <<"dmx">>, joint |-> joints[y], axis |-> axis] :
        y \in {j \in 1..Len(joints) : JointNumber(joints[j]) \in Range(block)},
        axis \in {"X", "Y", "Z"}}

scale_tongue_ikfk(h) ==
    LET numbers == DistinctNumbers(h.joints, 1, <<>>)
    IN IF Len(h.ik_ctrls) = 0
       THEN [error |-> "ZeroDivisionError", numbers |-> numbers, round_div |-> 0,
             blocks |-> <<>>, connections |-> {}]
       ELSE LET round_div == PyRound(Len(numbers), Len(h.ik_ctrls))
                blocks == [i \in 1..Len(h.ik_ctrls) |-> BlockOf(numbers, round_div, i - 1)]
            IN [error |-> "", numbers |-> numbers, round_div |-> round_div,
                blocks |-> blocks,
                connections |->
                    UNION {ScaleConnections(h.joints, h.ik_ctrls[i], blocks[i]) :
                              i \in 1..Len(h.ik_ctrls)}]

\* cmds.ls("tongue_*_jnt") + cmds.ls("tongue_*_bind")
TongueScenes ==
    {[joints |-> [i \in 1..n |-> TongueJnt(i)] \o [i \in 1..b |-> TongueBind(i)],
      ik_ctrls |-> [i \in 1..k |-> IkCtrl(i)]] :
        n \in 0..MaxNumbers, b \in 0..MaxNumbers, k \in 0..MaxIk}

InitTongue ==
    /\ NoReconcile
    /\ host \in TongueScenes
    /\ args = <<>>
    /\ result = <<>>
    /\ pc = "call"
    /\ error = ""
    /\ runs = 0

CallScaleTongueIkfk ==
    /\ pc = "call"
    /\ pc' = "done"
    /\ LET r == scale_tongue_ikfk(host)
       IN /\ result' = <<Called("scale_tongue_ikfk", <<>>, r, r.error, host, host)>>
          /\ error' = r.error
    /\ UNCHANGED <<host, args, runs>>
    /\ UNCHANGED ReconcileVars

NextTongue == CallScaleTongueIkfk

SpecTongue == InitTongue /\ [][NextTongue]_vars

(***************************************************************************)
(* C30.  scale_tongue_ikfk partitions the tongue joints among the IK       *)
(* controllers: with at least one IK controller, every distinct joint      *)
(* number is in the block of exactly one controller, and the blocks in the *)
(* order of the controllers make up the list of the numbers.               *)
(***************************************************************************)
C30_NumbersPartitioned ==
    \A k \in 1..Len(result) :
        LET h == result[k].before
            r == result[k].value
        IN Len(h.ik_ctrls) > 0 =>
              /\ \A num \in Range(r.numbers) :
                    Cardinality({i \in 1..Len(r.blocks) : num \in Range(r.blocks[i])}) = 1
              /\ Flatten(r.blocks) = r.numbers
              /\ \A j \in Range(h.joints) :
                    Cardinality({c.src : c \in {x \in r.connections : x.joint = j}}) = 1

====
